---- MODULE Spec2Model ----
(***************************************************************************)
(* A state-machine model of the two-stage query pipeline:                  *)
(*   packages/api/agents      AnswerAgent, UIAgent, MultiAgentGraph         *)
(*   services/agent-service   RouterAgent, DynamicUIAgent,                  *)
(*                            DynamicToolGenerator                          *)
(* The hosted model, the tool executor of the graph library and the agent   *)
(* executor are the environment: every model call answers with any message  *)
(* of a small set or raises.                                                *)
(*                                                                          *)
(* Python str values are sequences of one-character strings, so that        *)
(* lower(), strip(), `in` and concatenation are computed and not assumed.   *)
(***************************************************************************)
EXTENDS Integers, Sequences, FiniteSets, TLC

(***************************************************************************)
(* Bounds of the model.                                                     *)
(***************************************************************************)
\* Tool calls the model may put in one message.
MaxToolCalls == 2
\* Super-steps a compiled graph runs before the graph library raises its
\* recursion error (the library's default is 25; no source line sets it).
RecursionLimit == 3

(***************************************************************************)
(* str                                                                      *)
(***************************************************************************)
UpperCase == <<"A","B","C","D","E","F","G","H","I","J","K","L","M",
               "N","O","P","Q","R","S","T","U","V","W","X","Y","Z">>
LowerCase == <<"a","b","c","d","e","f","g","h","i","j","k","l","m",
               "n","o","p","q","r","s","t","u","v","w","x","y","z">>
Whitespace == {" ", "\t", "\n", "\r"}

\* None where a str may stand: no str holds a several-character element.
None == <<"None">>
\* A message content that is a list of parts and not a str.
ListContent == <<"[parts]">>

IsStr(v) == \A i \in 1..Len(v) : Len(v[i]) = 1

LowerChar(c) ==
    IF \E i \in 1..26 : UpperCase[i] = c
    THEN LowerCase[CHOOSE i \in 1..26 : UpperCase[i] = c]
    ELSE c

\* str.lower()
Lower(s) == [i \in 1..Len(s) |-> LowerChar(s[i])]

\* `k in s` for two strs
Contains(s, k) ==
    \E i \in 0..(Len(s) - Len(k)) : \A j \in 1..Len(k) : s[i + j] = k[j]

\* str.strip()
Strip(s) ==
    LET keep == {i \in 1..Len(s) : s[i] \notin Whitespace}
    IN  IF keep = {} THEN <<>>
        ELSE LET lo == CHOOSE i \in keep : \A j \in keep : i <= j
                 hi == CHOOSE i \in keep : \A j \in keep : j <= i
             IN  SubSeq(s, lo, hi)

\* any(w in s for w in words)
AnyIn(words, s) == \E i \in 1..Len(words) : Contains(s, words[i])

(***************************************************************************)
(* JSON values (what json.loads returns and json.dumps takes) and texts.    *)
(* Every value has the same four fields, whatever its kind.                 *)
(*   t  "null" | "bool" | "num" | "str" | "list" | "obj"                    *)
(*   s  the str, the number's literal, or "true"/"false"                    *)
(*   l  the list's elements                                                 *)
(*   o  the object: a set of <<key, value>> pairs, one pair per key         *)
(***************************************************************************)
JNull == [t |-> "null", s |-> <<>>, l |-> <<>>, o |-> {}]
JBool(b) == [t |-> "bool", s |-> IF b THEN <<"t","r","u","e">> ELSE <<"f","a","l","s","e">>, l |-> <<>>, o |-> {}]
JNum(literal) == [t |-> "num", s |-> literal, l |-> <<>>, o |-> {}]
JStr(chars) == [t |-> "str", s |-> chars, l |-> <<>>, o |-> {}]
JList(elems) == [t |-> "list", s |-> <<>>, l |-> elems, o |-> {}]
JObj(pairs) == [t |-> "obj", s |-> <<>>, l |-> <<>>, o |-> pairs]
\* Optional[str]: None is null
JOptStr(v) == IF v = None THEN JNull ELSE JStr(v)

\* {}
EmptyDict == JObj({})

HasKey(d, k) == \E p \in d.o : p[1] = k
\* d[k]
Get(d, k) == (CHOOSE p \in d.o : p[1] = k)[2]
\* d.get(k, default)
GetOr(d, k, default) == IF HasKey(d, k) THEN Get(d, k) ELSE default

(***************************************************************************)
(* Numbers in strs, and str() of a value.                                   *)
(***************************************************************************)
Digits == {"0", "1", "2", "3", "4", "5", "6", "7", "8", "9"}
IsDigit(c) == c \in Digits

\* The end of the longest run of digits of s that starts at index from
\* (from - 1 when s[from] is no digit).
RunEnd(s, from) ==
    CHOOSE j \in (from - 1)..Len(s) :
        /\ \A k \in from..j : IsDigit(s[k])
        /\ j = Len(s) \/ ~IsDigit(s[j + 1])

StripLeadingZeros(d) ==
    LET nz == {i \in 1..Len(d) : d[i] # "0"}
    IN  IF nz = {} THEN <<"0">>
        ELSE SubSeq(d, CHOOSE i \in nz : \A j \in nz : i <= j, Len(d))

StripTrailingZeros(d) ==
    LET nz == {i \in 1..Len(d) : d[i] # "0"}
    IN  IF nz = {} THEN <<>>
        ELSE SubSeq(d, 1, CHOOSE i \in nz : \A j \in nz : j <= i)

\* re.findall(r'-?\d+\.?\d*', s): whether there is a match, and the first
\* match as sign, integer digits and fraction digits.
NumberStarts(s) ==
    {i \in 1..Len(s) :
        \/ IsDigit(s[i])
        \/ s[i] = "-" /\ i < Len(s) /\ IsDigit(s[i + 1])}
\* The match taken at the last place a number can start.
FirstNumber_from_last_start(s) ==
    LET i  == CHOOSE a \in NumberStarts(s) : \A b \in NumberStarts(s) : a >= b
        d0 == IF s[i] = "-" THEN i + 1 ELSE i
        d1 == RunEnd(s, d0)
        dot == d1 < Len(s) /\ s[d1 + 1] = "."
        f1 == IF dot THEN RunEnd(s, d1 + 2) ELSE d1
    IN  [neg |-> s[i] = "-",
         ip  |-> SubSeq(s, d0, d1),
         fp  |-> IF dot THEN SubSeq(s, d1 + 2, f1) ELSE <<>>]
FirstNumber(s) ==
    LET i  == CHOOSE a \in NumberStarts(s) : \A b \in NumberStarts(s) : a <= b
        d0 == IF s[i] = "-" THEN i + 1 ELSE i
        d1 == RunEnd(s, d0)
        dot == d1 < Len(s) /\ s[d1 + 1] = "."
        f1 == IF dot THEN RunEnd(s, d1 + 2) ELSE d1
    IN  [neg |-> s[i] = "-",
         ip  |-> SubSeq(s, d0, d1),
         fp  |-> IF dot THEN SubSeq(s, d1 + 2, f1) ELSE <<>>]

\* float(m) of a match, as the literal json.dumps writes for it
FloatLiteral(m) ==
    LET fp == StripTrailingZeros(m.fp)
    IN  (IF m.neg THEN <<"-">> ELSE <<>>)
        \o StripLeadingZeros(m.ip) \o <<".">>
        \o (IF fp = <<>> THEN <<"0">> ELSE fp)
\* int(float(m)): truncation towards zero
IntLiteral(m) ==
    LET ip == StripLeadingZeros(m.ip)
    IN  (IF m.neg /\ ip # <<"0">> THEN <<"-">> ELSE <<>>) \o ip

\* The floats json.loads gives that are no finite number: 1e309 and
\* Infinity, -Infinity, NaN.
NonFinite == {<<"I","n","f","i","n","i","t","y">>, <<"-","I","n","f","i","n","i","t","y">>, <<"N","a","N">>}
\* str(x) of a float that is no finite number
NonFiniteStr(literal) ==
    CASE literal = <<"I","n","f","i","n","i","t","y">> -> <<"i","n","f">>
      [] literal = <<"-","I","n","f","i","n","i","t","y">> -> <<"-","i","n","f">>
      [] literal = <<"N","a","N">> -> <<"n","a","n">>

\* ", ".join(items)
RECURSIVE CommaJoin(_)
CommaJoin(items) ==
    IF items = <<>> THEN <<>>
    ELSE IF Len(items) = 1 THEN items[1]
    ELSE items[1] \o <<","," ">> \o CommaJoin(Tail(items))

\* The pairs of a dict, one after the other.
RECURSIVE Items(_)
Items(pairs) ==
    IF pairs = {} THEN <<>>
    ELSE LET p == CHOOSE q \in pairs : TRUE
         IN  <<p>> \o Items(pairs \ {p})

\* repr(value) of a value json.loads gave
RECURSIVE PyRepr(_)
PyRepr(value) ==
    CASE value.t = "null" -> <<"N","o","n","e">>
      [] value.t = "bool" -> IF value.s = <<"t","r","u","e">> THEN <<"T","r","u","e">> ELSE <<"F","a","l","s","e">>
      [] value.t = "num" ->
            IF value.s \in NonFinite THEN NonFiniteStr(value.s) ELSE value.s
      [] value.t = "str" -> <<"'">> \o value.s \o <<"'">>
      [] value.t = "list" ->
            <<"[">> \o CommaJoin([i \in 1..Len(value.l) |-> PyRepr(value.l[i])]) \o <<"]">>
      [] value.t = "obj" ->
            LET items == Items(value.o)
            IN  <<"{">> \o CommaJoin([i \in 1..Len(items) |->
                          <<"'">> \o items[i][1] \o <<"'",":"," ">> \o PyRepr(items[i][2])])
                \o <<"}">>
\* str(value)
PyStr(value) == IF value.t = "str" THEN value.s ELSE PyRepr(value)


(***************************************************************************)
(* json.dumps and json.loads on characters: the text a tool returns and     *)
(* what parsing that text gives.                                            *)
(***************************************************************************)
\* A character of a str, as json.dumps writes it inside quotes.
EscapeChar(c) ==
    CASE c = "\"" -> <<"\\", "\"">>
      [] c = "\\" -> <<"\\", "\\">>
      [] c = "\n" -> <<"\\", "n">>
      [] c = "\r" -> <<"\\", "r">>
      [] c = "\t" -> <<"\\", "t">>
      [] OTHER -> <<c>>
\* The characters json.dumps writes with a backslash.
Escaped == {"\"", "\\", "\n", "\r", "\t"}
\* The first position from i on that holds a character of set, Len(s) + 1
\* when there is none.
FirstOf(s, i, set) ==
    CHOOSE j \in i..(Len(s) + 1) :
        /\ \A k \in i..(j - 1) : s[k] \notin set
        /\ j = Len(s) + 1 \/ s[j] \in set
RECURSIVE EscapeStr(_)
EscapeStr(s) ==
    LET q == FirstOf(s, 1, Escaped)
    IN  IF q > Len(s) THEN s
        ELSE SubSeq(s, 1, q - 1) \o EscapeChar(s[q])
             \o EscapeStr(SubSeq(s, q + 1, Len(s)))
QuoteStr(s) == <<"\"">> \o EscapeStr(s) \o <<"\"">>

\* json.dumps(v), with its separators ", " and ": "
RECURSIVE JsonEncode(_)
JsonEncode(v) ==
    CASE v.t = "null" -> <<"n","u","l","l">>
      [] v.t = "bool" -> v.s
      [] v.t = "num" -> v.s
      [] v.t = "str" -> QuoteStr(v.s)
      [] v.t = "list" ->
            <<"[">> \o CommaJoin([i \in 1..Len(v.l) |-> JsonEncode(v.l[i])]) \o <<"]">>
      [] v.t = "obj" ->
            LET items == Items(v.o)
            IN  <<"{">> \o CommaJoin([i \in 1..Len(items) |->
                          QuoteStr(items[i][1]) \o <<":"," ">> \o JsonEncode(items[i][2])])
                \o <<"}">>

\* What the decoder gives from a position of the text: a value and the
\* position after it, or a failure.
Parsed(v, next) == [ok |-> TRUE, v |-> v, next |-> next]
ParseFails == [ok |-> FALSE, v |-> JNull, next |-> 0]

\* The first position from i on that holds no whitespace.
SkipWhitespace(s, i) ==
    CHOOSE j \in i..(Len(s) + 1) :
        /\ \A k \in i..(j - 1) : s[k] \in Whitespace
        /\ j = Len(s) + 1 \/ s[j] \notin Whitespace
\* s has the characters of word at position i
StartsWith(s, i, word) ==
    /\ i + Len(word) - 1 <= Len(s)
    /\ \A k \in 1..Len(word) : s[i + k - 1] = word[k]

\* The character an escape sequence stands for.
Unescape(c) ==
    CASE c = "n" -> "\n"
      [] c = "r" -> "\r"
      [] c = "t" -> "\t"
      [] OTHER -> c
\* A str, from the position after its opening quote; acc is what was read
\* of it before position i, and q the next quote or backslash.
RECURSIVE ParseString(_, _, _)
ParseStringAt(s, i, acc, q) ==
    IF q > Len(s) THEN ParseFails
    ELSE IF s[q] = "\"" THEN Parsed(JStr(acc \o SubSeq(s, i, q - 1)), q + 1)
    ELSE IF s[q] # "\\" THEN ParseFails
    ELSE IF q + 1 > Len(s) \/ s[q + 1] \notin {"\"", "\\", "/", "n", "r", "t"}
    THEN ParseFails
    ELSE ParseString(s, q + 2, Append(acc \o SubSeq(s, i, q - 1), Unescape(s[q + 1])))
ParseString(s, i, acc) == ParseStringAt(s, i, acc, FirstOf(s, i, Escaped))

\* A number without an exponent: an int when it has no fraction, a float
\* otherwise; and the three floats that are no finite number.  The digits
\* of the integer part are at d0..d1, those of the fraction end at f1.
ParseFloat(s, i, d0, d1, f1) ==
    Parsed(JNum(FloatLiteral([neg |-> s[i] = "-",
                              ip  |-> SubSeq(s, d0, d1),
                              fp  |-> SubSeq(s, d1 + 2, f1)])),
           f1 + 1)
ParseDigits(s, i, d0, d1) ==
    IF d1 < d0 \/ (d1 > d0 /\ s[d0] = "0") THEN ParseFails
    ELSE IF d1 + 1 < Len(s) /\ s[d1 + 1] = "." /\ IsDigit(s[d1 + 2])
    THEN ParseFloat(s, i, d0, d1, RunEnd(s, d1 + 2))
    ELSE Parsed(JNum(SubSeq(s, i, d1)), d1 + 1)
ParseSigned(s, i, d0) == ParseDigits(s, i, d0, RunEnd(s, d0))
ParseNumber(s, i) ==
    IF StartsWith(s, i, <<"N","a","N">>) THEN Parsed(JNum(<<"N","a","N">>), i + 3)
    ELSE IF StartsWith(s, i, <<"I","n","f","i","n","i","t","y">>) THEN Parsed(JNum(<<"I","n","f","i","n","i","t","y">>), i + 8)
    ELSE IF StartsWith(s, i, <<"-","I","n","f","i","n","i","t","y">>) THEN Parsed(JNum(<<"-","I","n","f","i","n","i","t","y">>), i + 9)
    ELSE ParseSigned(s, i, IF s[i] = "-" THEN i + 1 ELSE i)

RECURSIVE ParseValue(_, _)
RECURSIVE ParseElements(_, _, _)
RECURSIVE ParseMembers(_, _, _)
\* The elements of a list, from the position after "[" or ",": the element
\* e, then "]" or "," at j.
ParseElementEnd(s, v, j, acc) ==
    IF j > Len(s) THEN ParseFails
    ELSE IF s[j] = "]" THEN Parsed(JList(Append(acc, v)), j + 1)
    ELSE IF s[j] = "," THEN ParseElements(s, j + 1, Append(acc, v))
    ELSE ParseFails
ParseElement(s, e, acc) ==
    IF ~e.ok THEN ParseFails
    ELSE ParseElementEnd(s, e.v, SkipWhitespace(s, e.next), acc)
ParseElements(s, i, acc) ==
    ParseElement(s, ParseValue(s, SkipWhitespace(s, i)), acc)
\* The members of an object, from the position after "{" or ",": the key at
\* k0, the colon at c, the value e, then "}" or "," at j; of two members
\* with one key the later one stays.
ParseMemberEnd(s, j, members) ==
    IF j > Len(s) THEN ParseFails
    ELSE IF s[j] = "}" THEN Parsed(JObj(members), j + 1)
    ELSE IF s[j] = "," THEN ParseMembers(s, j + 1, members)
    ELSE ParseFails
ParseMemberValue(s, k, e, acc) ==
    IF ~e.ok THEN ParseFails
    ELSE ParseMemberEnd(s, SkipWhitespace(s, e.next),
                        {p \in acc : p[1] # k} \cup {<<k, e.v>>})
ParseMemberColon(s, k, c, acc) ==
    IF c <= Len(s) /\ s[c] = ":"
    THEN ParseMemberValue(s, k, ParseValue(s, SkipWhitespace(s, c + 1)), acc)
    ELSE ParseFails
ParseMemberKey(s, key, acc) ==
    IF ~key.ok THEN ParseFails
    ELSE ParseMemberColon(s, key.v.s, SkipWhitespace(s, key.next), acc)
ParseMember(s, k0, acc) ==
    IF k0 <= Len(s) /\ s[k0] = "\""
    THEN ParseMemberKey(s, ParseString(s, k0 + 1, <<>>), acc)
    ELSE ParseFails
ParseMembers(s, i, acc) == ParseMember(s, SkipWhitespace(s, i), acc)
\* A value at position i; j is the position of what follows a bracket.
ParseBracket(s, i, j) ==
    IF s[i] = "{"
    THEN IF j <= Len(s) /\ s[j] = "}" THEN Parsed(JObj({}), j + 1)
         ELSE ParseMembers(s, i + 1, {})
    ELSE IF j <= Len(s) /\ s[j] = "]" THEN Parsed(JList(<<>>), j + 1)
         ELSE ParseElements(s, i + 1, <<>>)
ParseValue(s, i) ==
    IF i > Len(s) THEN ParseFails
    ELSE IF s[i] \in {"{", "["} THEN ParseBracket(s, i, SkipWhitespace(s, i + 1))
    ELSE IF s[i] = "\"" THEN ParseString(s, i + 1, <<>>)
    ELSE IF StartsWith(s, i, <<"n","u","l","l">>) THEN Parsed(JNull, i + 4)
    ELSE IF StartsWith(s, i, <<"t","r","u","e">>) THEN Parsed(JBool(TRUE), i + 4)
    ELSE IF StartsWith(s, i, <<"f","a","l","s","e">>) THEN Parsed(JBool(FALSE), i + 5)
    ELSE IF s[i] \in Digits \cup {"-", "N", "I"} THEN ParseNumber(s, i)
    ELSE ParseFails

\* json.loads(chars): the value, or a failure for a JSONDecodeError; r is
\* what the text starts with, and only whitespace may follow it
JsonDecodeAll(chars, r) ==
    IF r.ok /\ SkipWhitespace(chars, r.next) = Len(chars) + 1 THEN r
    ELSE ParseFails
JsonDecode(chars) ==
    JsonDecodeAll(chars, ParseValue(chars, SkipWhitespace(chars, 1)))
(***************************************************************************)
(* A text that json.loads may be given: the characters of the str, which    *)
(* are the serialization of a JSON value or are no JSON text.               *)
(***************************************************************************)
Raw(chars) == [chars |-> chars]
\* json.dumps(v)
JsonDumps(v) == [chars |-> JsonEncode(v)]
\* json.loads(text) raises JSONDecodeError
JsonDecodeError(text) == ~JsonDecode(text.chars).ok
\* json.loads(text)
JsonLoads(text) == JsonDecode(text.chars).v

(***************************************************************************)
(* Messages of a conversation: HumanMessage, AIMessage, ToolMessage.        *)
(***************************************************************************)
HumanMessage(content) ==
    [type |-> "human", content |-> Raw(content), tool_calls |-> <<>>]
AIMessage(content, tool_calls) ==
    [type |-> "ai", content |-> Raw(content), tool_calls |-> tool_calls]
ToolMessage(text) ==
    [type |-> "tool", content |-> text, tool_calls |-> <<>>]
\* A tool call of an AIMessage: the tool's name and the arguments (an object).
ToolCall(name, args) == [name |-> name, args |-> args]

Last(seq) == seq[Len(seq)]

(***************************************************************************)
(* Tool layer of UIAgent: the four component tools.  A tool run gives       *)
(* [ok, schema, text]: ok with the schema it built and the JSON text it     *)
(* returns, or not ok when it raises (a missing or mistyped argument, a     *)
(* schema validation error).                                                *)
(***************************************************************************)
ToolOk(schema) == [ok |-> TRUE, schema |-> schema, text |-> JsonDumps(schema)]
ToolRaises == [ok |-> FALSE, schema |-> JNull, text |-> Raw(<<>>)]

\* A required str argument is present and a str.
HasStrArg(args, k) == HasKey(args, k) /\ Get(args, k).t = "str"
\* An optional str argument is absent, None or a str.
OptStrArgOk(args, k) == HasKey(args, k) => Get(args, k).t \in {"str", "null"}
\* An optional str argument's value, None when absent.
OptStrArg(args, k) ==
    IF HasKey(args, k) /\ Get(args, k).t = "str" THEN Get(args, k).s ELSE None

\* What a conversion that raises gives in place of a number.
ConversionRaises == [t |-> "raised", s |-> <<>>, l |-> <<>>, o |-> {}]

\* WeatherCardTool._parse_number(value, is_int): value is None (null), an
\* int or float (a bool is an int), or anything else, of which the str is
\* searched; the result is a number or None (null), and int() of a float
\* that is no finite number raises.
WeatherCardTool_parse_number(value, is_int) ==
    IF value.t = "null" THEN JNull
    ELSE IF value.t = "bool"
    THEN JNum(IF value.s = <<"t","r","u","e">>
              THEN (IF is_int THEN <<"1">> ELSE <<"1",".","0">>)
              ELSE (IF is_int THEN <<"0">> ELSE <<"0",".","0">>))
    ELSE IF value.t = "num" /\ value.s \in NonFinite
    THEN IF is_int THEN ConversionRaises ELSE value
    ELSE IF NumberStarts(PyStr(value)) = {} THEN JNull
    ELSE LET m == FirstNumber(PyStr(value))
         IN  JNum(IF is_int THEN IntLiteral(m) ELSE FloatLiteral(m))

\* WeatherCardTool._run
WeatherCardTool_run(args) ==
    IF ~(HasStrArg(args, <<"l","o","c","a","t","i","o","n">>) /\ HasKey(args, <<"t","e","m","p","e","r","a","t","u","r","e">>)
         /\ HasStrArg(args, <<"c","o","n","d","i","t","i","o","n">>) /\ OptStrArgOk(args, <<"i","c","o","n">>))
    THEN ToolRaises
    ELSE LET parsed_temp == WeatherCardTool_parse_number(Get(args, <<"t","e","m","p","e","r","a","t","u","r","e">>), FALSE)
             parsed_humidity ==
                 WeatherCardTool_parse_number(GetOr(args, <<"h","u","m","i","d","i","t","y">>, JNull), TRUE)
             parsed_wind ==
                 WeatherCardTool_parse_number(GetOr(args, <<"w","i","n","d","_","s","p","e","e","d">>, JNull), FALSE)
         IN  IF ConversionRaises \in {parsed_temp, parsed_humidity, parsed_wind}
             THEN ToolRaises
             ELSE ToolOk(JObj({
                 <<<<"t","y","p","e">>, JStr(<<"w","e","a","t","h","e","r","_","c","a","r","d">>)>>,
                 <<<<"l","o","c","a","t","i","o","n">>, Get(args, <<"l","o","c","a","t","i","o","n">>)>>,
                 <<<<"t","e","m","p","e","r","a","t","u","r","e">>,
                   IF parsed_temp # JNull THEN parsed_temp ELSE JNum(<<"2","0",".","0">>)>>,
                 <<<<"c","o","n","d","i","t","i","o","n">>, Get(args, <<"c","o","n","d","i","t","i","o","n">>)>>,
                 <<<<"h","u","m","i","d","i","t","y">>, parsed_humidity>>,
                 <<<<"w","i","n","d","_","s","p","e","e","d">>, parsed_wind>>,
                 <<<<"i","c","o","n">>, JOptStr(OptStrArg(args, <<"i","c","o","n">>))>>}))

\* ChartType
ChartTypes == {<<"b","a","r">>, <<"l","i","n","e">>, <<"p","i","e">>, <<"a","r","e","a">>}

\* ChartDataPoint(**point): label a str, value a number, color optional
ChartDataPointOk(point) ==
    /\ point.t = "obj"
    /\ HasStrArg(point, <<"l","a","b","e","l">>)
    /\ HasKey(point, <<"v","a","l","u","e">>) /\ Get(point, <<"v","a","l","u","e">>).t = "num"
    /\ OptStrArgOk(point, <<"c","o","l","o","r">>)
ChartDataPoint(point) ==
    JObj({<<<<"l","a","b","e","l">>, Get(point, <<"l","a","b","e","l">>)>>,
          <<<<"v","a","l","u","e">>, Get(point, <<"v","a","l","u","e">>)>>,
          <<<<"c","o","l","o","r">>, JOptStr(OptStrArg(point, <<"c","o","l","o","r">>))>>})

\* ChartCardTool._run
ChartCardTool_run(args) ==
    IF ~(/\ HasStrArg(args, <<"t","i","t","l","e">>) /\ HasStrArg(args, <<"c","h","a","r","t","_","t","y","p","e">>)
         /\ HasKey(args, <<"d","a","t","a">>) /\ Get(args, <<"d","a","t","a">>).t = "list"
         /\ OptStrArgOk(args, <<"x","_","a","x","i","s","_","l","a","b","e","l">>) /\ OptStrArgOk(args, <<"y","_","a","x","i","s","_","l","a","b","e","l">>))
    THEN ToolRaises
    ELSE LET data == Get(args, <<"d","a","t","a">>).l
         IN  IF \/ \E i \in 1..Len(data) : ~ChartDataPointOk(data[i])
                \/ Get(args, <<"c","h","a","r","t","_","t","y","p","e">>).s \notin ChartTypes
             THEN ToolRaises
             ELSE ToolOk(JObj({
                     <<<<"t","y","p","e">>, JStr(<<"c","h","a","r","t","_","c","a","r","d">>)>>,
                     <<<<"t","i","t","l","e">>, Get(args, <<"t","i","t","l","e">>)>>,
                     <<<<"c","h","a","r","t","_","t","y","p","e">>, Get(args, <<"c","h","a","r","t","_","t","y","p","e">>)>>,
                     <<<<"d","a","t","a">>, JList([i \in 1..Len(data) |-> ChartDataPoint(data[i])])>>,
                     <<<<"x","_","a","x","i","s","_","l","a","b","e","l">>, JOptStr(OptStrArg(args, <<"x","_","a","x","i","s","_","l","a","b","e","l">>))>>,
                     <<<<"y","_","a","x","i","s","_","l","a","b","e","l">>, JOptStr(OptStrArg(args, <<"y","_","a","x","i","s","_","l","a","b","e","l">>))>>}))

\* TableColumn(**col): key and label strs, sortable a bool, True by default
TableColumnOk(col) ==
    /\ col.t = "obj"
    /\ HasStrArg(col, <<"k","e","y">>) /\ HasStrArg(col, <<"l","a","b","e","l">>)
    /\ (HasKey(col, <<"s","o","r","t","a","b","l","e">>) => Get(col, <<"s","o","r","t","a","b","l","e">>).t = "bool")
TableColumn(col) ==
    JObj({<<<<"k","e","y">>, Get(col, <<"k","e","y">>)>>,
          <<<<"l","a","b","e","l">>, Get(col, <<"l","a","b","e","l">>)>>,
          <<<<"s","o","r","t","a","b","l","e">>, GetOr(col, <<"s","o","r","t","a","b","l","e">>, JBool(TRUE))>>})

\* DataTableTool._run
DataTableTool_run(args) ==
    IF ~(/\ HasStrArg(args, <<"t","i","t","l","e">>)
         /\ HasKey(args, <<"c","o","l","u","m","n","s">>) /\ Get(args, <<"c","o","l","u","m","n","s">>).t = "list"
         /\ HasKey(args, <<"r","o","w","s">>) /\ Get(args, <<"r","o","w","s">>).t = "list"
         /\ (HasKey(args, <<"s","e","a","r","c","h","a","b","l","e">>) => Get(args, <<"s","e","a","r","c","h","a","b","l","e">>).t = "bool"))
    THEN ToolRaises
    ELSE LET columns == Get(args, <<"c","o","l","u","m","n","s">>).l
             rows == Get(args, <<"r","o","w","s">>).l
         IN  IF \/ \E i \in 1..Len(columns) : ~TableColumnOk(columns[i])
                \/ \E i \in 1..Len(rows) : rows[i].t # "obj"
             THEN ToolRaises
             ELSE ToolOk(JObj({
                     <<<<"t","y","p","e">>, JStr(<<"d","a","t","a","_","t","a","b","l","e">>)>>,
                     <<<<"t","i","t","l","e">>, Get(args, <<"t","i","t","l","e">>)>>,
                     <<<<"c","o","l","u","m","n","s">>,
                       JList([i \in 1..Len(columns) |-> TableColumn(columns[i])])>>,
                     <<<<"r","o","w","s">>,
                       JList([i \in 1..Len(rows) |-> JObj({<<<<"d","a","t","a">>, rows[i]>>})])>>,
                     <<<<"s","e","a","r","c","h","a","b","l","e">>, GetOr(args, <<"s","e","a","r","c","h","a","b","l","e">>, JBool(TRUE))>>}))

\* InfoCardSchema.variant
InfoVariants == {<<"d","e","f","a","u","l","t">>, <<"s","u","c","c","e","s","s">>, <<"w","a","r","n","i","n","g">>, <<"e","r","r","o","r">>}

\* InfoCardTool._run(title, content, icon=None, variant="default")
InfoCardTool_run(args) ==
    IF ~(/\ HasStrArg(args, <<"t","i","t","l","e">>) /\ HasStrArg(args, <<"c","o","n","t","e","n","t">>)
         /\ OptStrArgOk(args, <<"i","c","o","n">>) /\ OptStrArgOk(args, <<"v","a","r","i","a","n","t">>))
    THEN ToolRaises
    ELSE LET variant == GetOr(args, <<"v","a","r","i","a","n","t">>, JStr(<<"d","e","f","a","u","l","t">>))
         IN  IF variant # JNull /\ variant.s \notin InfoVariants
             THEN ToolRaises
             ELSE ToolOk(JObj({
                     <<<<"t","y","p","e">>, JStr(<<"i","n","f","o","_","c","a","r","d">>)>>,
                     <<<<"t","i","t","l","e">>, Get(args, <<"t","i","t","l","e">>)>>,
                     <<<<"c","o","n","t","e","n","t">>, Get(args, <<"c","o","n","t","e","n","t">>)>>,
                     <<<<"i","c","o","n">>, JOptStr(OptStrArg(args, <<"i","c","o","n">>))>>,
                     <<<<"v","a","r","i","a","n","t">>, variant>>}))

\* UIAgent.tools, by name
UIToolNames == {"create_weather_card", "create_chart_card",
                "create_data_table", "create_info_card"}
UIToolRun(name, args) ==
    CASE name = "create_weather_card" -> WeatherCardTool_run(args)
      [] name = "create_chart_card" -> ChartCardTool_run(args)
      [] name = "create_data_table" -> DataTableTool_run(args)
      [] name = "create_info_card" -> InfoCardTool_run(args)


(***************************************************************************)
(* The component schemas, given the mapping json.loads made of a tool's     *)
(* text: the component, or a validation error.                              *)
(***************************************************************************)
Validated(component) == [ok |-> TRUE, component |-> component]
ValidationError == [ok |-> FALSE, component |-> JNull]

HasFraction(literal) == \E i \in 1..Len(literal) : literal[i] = "."
\* A float field given a number: an int becomes the float of its value.
AsFloat(v) ==
    IF v.s \in NonFinite \/ HasFraction(v.s) THEN v ELSE JNum(v.s \o <<".","0">>)
\* An int field takes an int and a float without a fractional part.
IntFieldOk(v) ==
    /\ v.t = "num" /\ v.s \notin NonFinite
    /\ HasFraction(v.s) =>
          LET dot == CHOOSE i \in 1..Len(v.s) : v.s[i] = "."
          IN  SubSeq(v.s, dot + 1, Len(v.s)) = <<"0">>
AsInt(v) ==
    IF HasFraction(v.s)
    THEN JNum(SubSeq(v.s, 1, (CHOOSE i \in 1..Len(v.s) : v.s[i] = ".") - 1))
    ELSE v
\* The type tag is the schema's own, or left to its default.
TypeTagOk(d, tag) == HasKey(d, <<"t","y","p","e">>) => Get(d, <<"t","y","p","e">>) = JStr(tag)

\* WeatherCardSchema(**d)
WeatherCardSchema(d) ==
    IF ~(/\ TypeTagOk(d, <<"w","e","a","t","h","e","r","_","c","a","r","d">>)
         /\ HasStrArg(d, <<"l","o","c","a","t","i","o","n">>) /\ HasStrArg(d, <<"c","o","n","d","i","t","i","o","n">>)
         /\ HasKey(d, <<"t","e","m","p","e","r","a","t","u","r","e">>) /\ Get(d, <<"t","e","m","p","e","r","a","t","u","r","e">>).t = "num"
         /\ GetOr(d, <<"h","u","m","i","d","i","t","y">>, JNull) # JNull => IntFieldOk(Get(d, <<"h","u","m","i","d","i","t","y">>))
         /\ GetOr(d, <<"w","i","n","d","_","s","p","e","e","d">>, JNull) # JNull => Get(d, <<"w","i","n","d","_","s","p","e","e","d">>).t = "num"
         /\ OptStrArgOk(d, <<"i","c","o","n">>))
    THEN ValidationError
    ELSE Validated(JObj({
             <<<<"t","y","p","e">>, JStr(<<"w","e","a","t","h","e","r","_","c","a","r","d">>)>>,
             <<<<"l","o","c","a","t","i","o","n">>, Get(d, <<"l","o","c","a","t","i","o","n">>)>>,
             <<<<"t","e","m","p","e","r","a","t","u","r","e">>, AsFloat(Get(d, <<"t","e","m","p","e","r","a","t","u","r","e">>))>>,
             <<<<"c","o","n","d","i","t","i","o","n">>, Get(d, <<"c","o","n","d","i","t","i","o","n">>)>>,
             <<<<"h","u","m","i","d","i","t","y">>, IF GetOr(d, <<"h","u","m","i","d","i","t","y">>, JNull) = JNull THEN JNull
                            ELSE AsInt(Get(d, <<"h","u","m","i","d","i","t","y">>))>>,
             <<<<"w","i","n","d","_","s","p","e","e","d">>, IF GetOr(d, <<"w","i","n","d","_","s","p","e","e","d">>, JNull) = JNull THEN JNull
                              ELSE AsFloat(Get(d, <<"w","i","n","d","_","s","p","e","e","d">>))>>,
             <<<<"i","c","o","n">>, JOptStr(OptStrArg(d, <<"i","c","o","n">>))>>}))

\* ChartCardSchema(**d)
ChartCardSchema(d) ==
    IF ~(/\ TypeTagOk(d, <<"c","h","a","r","t","_","c","a","r","d">>)
         /\ HasStrArg(d, <<"t","i","t","l","e">>) /\ HasStrArg(d, <<"c","h","a","r","t","_","t","y","p","e">>)
         /\ Get(d, <<"c","h","a","r","t","_","t","y","p","e">>).s \in ChartTypes
         /\ HasKey(d, <<"d","a","t","a">>) /\ Get(d, <<"d","a","t","a">>).t = "list"
         /\ \A i \in 1..Len(Get(d, <<"d","a","t","a">>).l) : ChartDataPointOk(Get(d, <<"d","a","t","a">>).l[i])
         /\ OptStrArgOk(d, <<"x","_","a","x","i","s","_","l","a","b","e","l">>) /\ OptStrArgOk(d, <<"y","_","a","x","i","s","_","l","a","b","e","l">>))
    THEN ValidationError
    ELSE LET data == Get(d, <<"d","a","t","a">>).l
         IN  Validated(JObj({
                 <<<<"t","y","p","e">>, JStr(<<"c","h","a","r","t","_","c","a","r","d">>)>>,
                 <<<<"t","i","t","l","e">>, Get(d, <<"t","i","t","l","e">>)>>,
                 <<<<"c","h","a","r","t","_","t","y","p","e">>, Get(d, <<"c","h","a","r","t","_","t","y","p","e">>)>>,
                 <<<<"d","a","t","a">>, JList([i \in 1..Len(data) |-> ChartDataPoint(data[i])])>>,
                 <<<<"x","_","a","x","i","s","_","l","a","b","e","l">>, JOptStr(OptStrArg(d, <<"x","_","a","x","i","s","_","l","a","b","e","l">>))>>,
                 <<<<"y","_","a","x","i","s","_","l","a","b","e","l">>, JOptStr(OptStrArg(d, <<"y","_","a","x","i","s","_","l","a","b","e","l">>))>>}))

\* TableRow(**row): data a dict
TableRowOk(row) ==
    row.t = "obj" /\ HasKey(row, <<"d","a","t","a">>) /\ Get(row, <<"d","a","t","a">>).t = "obj"

\* DataTableSchema(**d)
DataTableSchema(d) ==
    IF ~(/\ TypeTagOk(d, <<"d","a","t","a","_","t","a","b","l","e">>)
         /\ HasStrArg(d, <<"t","i","t","l","e">>)
         /\ HasKey(d, <<"c","o","l","u","m","n","s">>) /\ Get(d, <<"c","o","l","u","m","n","s">>).t = "list"
         /\ \A i \in 1..Len(Get(d, <<"c","o","l","u","m","n","s">>).l) : TableColumnOk(Get(d, <<"c","o","l","u","m","n","s">>).l[i])
         /\ HasKey(d, <<"r","o","w","s">>) /\ Get(d, <<"r","o","w","s">>).t = "list"
         /\ \A i \in 1..Len(Get(d, <<"r","o","w","s">>).l) : TableRowOk(Get(d, <<"r","o","w","s">>).l[i])
         /\ (HasKey(d, <<"s","e","a","r","c","h","a","b","l","e">>) => Get(d, <<"s","e","a","r","c","h","a","b","l","e">>).t = "bool"))
    THEN ValidationError
    ELSE LET columns == Get(d, <<"c","o","l","u","m","n","s">>).l
             rows == Get(d, <<"r","o","w","s">>).l
         IN  Validated(JObj({
                 <<<<"t","y","p","e">>, JStr(<<"d","a","t","a","_","t","a","b","l","e">>)>>,
                 <<<<"t","i","t","l","e">>, Get(d, <<"t","i","t","l","e">>)>>,
                 <<<<"c","o","l","u","m","n","s">>,
                   JList([i \in 1..Len(columns) |-> TableColumn(columns[i])])>>,
                 <<<<"r","o","w","s">>,
                   JList([i \in 1..Len(rows) |->
                             JObj({<<<<"d","a","t","a">>, Get(rows[i], <<"d","a","t","a">>)>>})])>>,
                 <<<<"s","e","a","r","c","h","a","b","l","e">>, GetOr(d, <<"s","e","a","r","c","h","a","b","l","e">>, JBool(TRUE))>>}))

\* InfoCardSchema(**d)
InfoCardSchema(d) ==
    IF ~(/\ TypeTagOk(d, <<"i","n","f","o","_","c","a","r","d">>)
         /\ HasStrArg(d, <<"t","i","t","l","e">>) /\ HasStrArg(d, <<"c","o","n","t","e","n","t">>)
         /\ OptStrArgOk(d, <<"i","c","o","n">>) /\ OptStrArgOk(d, <<"v","a","r","i","a","n","t">>)
         /\ OptStrArg(d, <<"v","a","r","i","a","n","t">>) \in InfoVariants \cup {None})
    THEN ValidationError
    ELSE Validated(JObj({
             <<<<"t","y","p","e">>, JStr(<<"i","n","f","o","_","c","a","r","d">>)>>,
             <<<<"t","i","t","l","e">>, Get(d, <<"t","i","t","l","e">>)>>,
             <<<<"c","o","n","t","e","n","t">>, Get(d, <<"c","o","n","t","e","n","t">>)>>,
             <<<<"i","c","o","n">>, JOptStr(OptStrArg(d, <<"i","c","o","n">>))>>,
             <<<<"v","a","r","i","a","n","t">>,
               IF HasKey(d, <<"v","a","r","i","a","n","t">>) THEN Get(d, <<"v","a","r","i","a","n","t">>) ELSE JStr(<<"d","e","f","a","u","l","t">>)>>}))

\* The schema a tool's text is parsed back into.
ToolSchema(name, d) ==
    IF d.t # "obj" THEN ValidationError
    ELSE CASE name = "create_weather_card" -> WeatherCardSchema(d)
           [] name = "create_chart_card" -> ChartCardSchema(d)
           [] name = "create_data_table" -> DataTableSchema(d)
           [] name = "create_info_card" -> InfoCardSchema(d)
(***************************************************************************)
(* State.                                                                   *)
(***************************************************************************)
VARIABLES
    \* MultiAgentGraph.process_query: the node of the pipeline graph that runs
    \* next ("idle" before a request, "returned"/"raised" after it)
    gNode,
    \* the GraphState of the request
    state,
    \* the AgentResponse process_query returned
    response,
    \* AnswerAgent.generate_answer: where it stands, the messages of its graph
    \* state and the super-steps its graph has run
    aPc, aMessages, aSteps,
    \* UIAgent.select_component: where it stands, the messages of its graph
    \* state, the super-steps run, the tool-enabled model invocations made, and
    \* what _finalize_response put in the graph state
    uPc, uMessages, uSteps, uInvocations, uFallbackInvocations, uResult,
    \* DynamicUIAgent: the schemas of the latest initialize_tools call (none
    \* before the first), tools, agent_executor; select_component: where it
    \* stands, its arguments, the executor's iterations and the observations of
    \* its tool calls, what the executor gave, and the result
    dSchemas, dTools, dExecutor, dPc, dArgs, dIterations, dObservations, dOutput, dResult,
    \* RouterAgent.route_query: where it stands, its arguments, the model's
    \* reply, its result and the number of model calls it made
    rPc, rArgs, rReply, rResult, rCalls,
    \* main.py: the lifespan has run, agent_graph is set; POST /api/query:
    \* where it stands, the outcome of the graph's process_query, the response
    started, agent_graph, hPc, hOutcome, hResponse,
    \* /ws/query: where the handler stands, the number of texts received, the
    \* request being processed, and the messages sent, each with the number
    \* of the received text it answers
    wPc, wReceived, wRequest, wSent,
    \* the number of the handler's websocket, and manager.active_connections
    wSocket, active_connections,
    \* a tool called on its own: where the call stands, its arguments, its result
    tPc, tInput, tOutput,
    \* what the agents keep for the life of the process: RouterAgent.categories,
    \* UIAgent.tools (by name) and UIAgent.graph (its entry point and edges)
    categories, uTools, uGraph

pipelineVars == <<gNode, state, response, aPc, aMessages, aSteps,
                  uPc, uMessages, uSteps, uInvocations, uFallbackInvocations, uResult>>
dynamicVars == <<dSchemas, dTools, dExecutor, dPc, dArgs, dIterations, dObservations,
                 dOutput, dResult>>
routerVars == <<rPc, rArgs, rReply, rResult, rCalls>>
serviceVars == <<started, agent_graph, hPc, hOutcome, hResponse,
                 wPc, wReceived, wRequest, wSent,
                 wSocket, active_connections>>
toolVars == <<tPc, tInput, tOutput>>
agentVars == <<categories, uTools, uGraph>>
vars == <<pipelineVars, dynamicVars, routerVars, serviceVars, toolVars, agentVars>>

(***************************************************************************)
(* The environment: what a request and the hosted model may say.            *)
(***************************************************************************)
Queries == {<<"R","a","i","n","y"," ","i","n"," ","R","o","m","e","?">>, <<"s","a","l","e","s"," ","c","h","a","r","t">>}
Contexts == {<<>>}
\* str(e) of an exception a model call raises
ModelError == <<"m","o","d","e","l"," ","u","n","a","v","a","i","l","a","b","l","e">>
\* The content of a tool message that reports a failed tool call.
ToolErrorText == <<"E","r","r","o","r",":"," ","t","o","o","l"," ","c","a","l","l"," ","f","a","i","l","e","d">>

\* content of a model message of the Answer Stage
AnswerContents == {<<>>, <<" "," ">>, <<" ","S","u","n","n","y",","," ","2","1","C","\n">>, ListContent}
AnswerToolCalls ==
    {ToolCall("get_weather", JObj({<<<<"c","i","t","y">>, JStr(<<"R","o","m","e">>)>>})),
     ToolCall("get_forecast", JObj({}))}

UIToolCalls ==
    {ToolCall("create_weather_card",
              JObj({<<<<"l","o","c","a","t","i","o","n">>, JStr(<<"R","o","m","e">>)>>, <<<<"t","e","m","p","e","r","a","t","u","r","e">>, JStr(<<"2","1","C">>)>>,
                    <<<<"c","o","n","d","i","t","i","o","n">>, JStr(<<"S","u","n","n","y">>)>>, <<<<"h","u","m","i","d","i","t","y">>, JStr(<<"6","5","%">>)>>})),
     ToolCall("create_chart_card",
              JObj({<<<<"t","i","t","l","e">>, JStr(<<"S","a","l","e","s">>)>>, <<<<"c","h","a","r","t","_","t","y","p","e">>, JStr(<<"b","a","r">>)>>,
                    <<<<"d","a","t","a">>, JList(<<JObj({<<<<"l","a","b","e","l">>, JStr(<<"J","a","n">>)>>,
                                            <<<<"v","a","l","u","e">>, JNum(<<"3">>)>>})>>)>>})),
     ToolCall("create_chart_card",
              JObj({<<<<"t","i","t","l","e">>, JStr(<<"S","a","l","e","s">>)>>, <<<<"c","h","a","r","t","_","t","y","p","e">>, JStr(<<"d","o","n","u","t">>)>>,
                    <<<<"d","a","t","a">>, JList(<<>>)>>})),
     ToolCall("create_data_table",
              JObj({<<<<"t","i","t","l","e">>, JStr(<<"U","s","e","r","s">>)>>,
                    <<<<"c","o","l","u","m","n","s">>, JList(<<JObj({<<<<"k","e","y">>, JStr(<<"i","d">>)>>,
                                               <<<<"l","a","b","e","l">>, JStr(<<"I","d">>)>>})>>)>>,
                    <<<<"r","o","w","s">>, JList(<<JObj({<<<<"i","d">>, JNum(<<"1">>)>>})>>)>>})),
     ToolCall("create_info_card",
              JObj({<<<<"t","i","t","l","e">>, JStr(<<"N","o","t","e">>)>>, <<<<"c","o","n","t","e","n","t">>, JStr(<<"h","e","l","l","o">>)>>})),
     ToolCall("create_info_card",
              JObj({<<<<"t","i","t","l","e">>, JStr(<<"N","o","t","e">>)>>, <<<<"c","o","n","t","e","n","t">>, JStr(<<"h","e","l","l","o">>)>>,
                    <<<<"v","a","r","i","a","n","t">>, JStr(<<"h","u","g","e">>)>>})),
     ToolCall("create_map", JObj({}))}

\* The sequences of at most n elements of S.
SeqsUpTo(S, n) == UNION {[1..k -> S] : k \in 0..n}

\* What a model invocation gives: a message, or an exception.
ModelReplies(contents, calls) ==
    {[raised |-> FALSE, message |-> AIMessage(c, tc)] :
        c \in contents, tc \in SeqsUpTo(calls, MaxToolCalls)}
    \cup {[raised |-> TRUE, message |-> AIMessage(<<>>, <<>>)]}

(***************************************************************************)
(* The tool node of the graph library, ToolNode(tools): it runs every tool  *)
(* call of the last message and gives one ToolMessage per call, in order.   *)
(* A call of an unknown tool gives an error message.  A tool that raises    *)
(* gives an error message when the node handles the error, and otherwise    *)
(* the node raises; which of the two depends on the library's version and   *)
(* the exception, so both can happen.                                       *)
(***************************************************************************)
\* runs[i] is the outcome of running the tool of calls[i]
ToolNodeMessages(calls, names, runs) ==
    [i \in 1..Len(calls) |->
        IF calls[i].name \notin names THEN ToolMessage(Raw(ToolErrorText))
        ELSE IF runs[i].ok THEN ToolMessage(runs[i].text)
        ELSE ToolMessage(Raw(ToolErrorText))]
ToolNodeFails(calls, names, runs) ==
    \E i \in 1..Len(calls) : calls[i].name \in names /\ ~runs[i].ok

(***************************************************************************)
(* AnswerAgent (packages/api/agents/answer_agent.py)                        *)
(***************************************************************************)
\* str(n) of an integer
RECURSIVE NatToStr(_)
NatToStr(n) ==
    LET d == <<"0", "1", "2", "3", "4", "5", "6", "7", "8", "9">>
    IN  IF n < 10 THEN <<d[n + 1]>> ELSE NatToStr(n \div 10) \o <<d[(n % 10) + 1]>>
IntToStr(n) == IF n < 0 THEN <<"-">> \o NatToStr(-n) ELSE NatToStr(n)

\* MockWeatherTool._run: conditions, and what random may draw (two of the
\* draws the ranges -5..35, 30..90 and 5..25 allow)
WeatherConditions == <<<<"S","u","n","n","y">>, <<"C","l","o","u","d","y">>, <<"P","a","r","t","l","y"," ","C","l","o","u","d","y">>, <<"R","a","i","n","y">>, <<"C","l","e","a","r">>, <<"O","v","e","r","c","a","s","t">>>>
WeatherDraws ==
    {[condition |-> 1, temperature |-> -5, humidity |-> 30, wind_speed |-> 5],
     [condition |-> 4, temperature |-> 35, humidity |-> 90, wind_speed |-> 25]}
MockWeatherTool_run(args, draw) ==
    IF ~HasStrArg(args, <<"c","i","t","y">>) THEN ToolRaises
    ELSE [ok |-> TRUE,
          text |-> Raw(<<"C","u","r","r","e","n","t"," ","w","e","a","t","h","e","r"," ","i","n"," ">> \o Get(args, <<"c","i","t","y">>).s \o <<":"," ">>
                       \o IntToStr(draw.temperature) \o <<"C",","," ">>
                       \o WeatherConditions[draw.condition] \o <<"."," ","H","u","m","i","d","i","t","y",":"," ">>
                       \o IntToStr(draw.humidity) \o <<"%",","," ","W","i","n","d",":"," ">>
                       \o IntToStr(draw.wind_speed) \o <<" ","k","m","/","h">>)]

\* AnswerAgent.tools
AnswerToolNames == {"get_weather"}

\* AnswerOutputParser.parse
AnswerOutputParser_parse(text) == Strip(text)

\* A test that never continues.
AnswerAgent_should_continue_never(messages) == "end"

\* AnswerAgent._should_continue
AnswerAgent_should_continue(messages) ==
    IF Last(messages).tool_calls # <<>> THEN "continue" ELSE "end"

\* AnswerAgent._build_graph: the node that follows node
AnswerAgent_build_graph(node, messages) ==
    CASE node = "agent" ->
            IF AnswerAgent_should_continue(messages) = "continue"
            THEN "tools" ELSE "END"
      [] node = "tools" -> "agent"

\* A test that sends every query to the tools.
AnswerAgent_should_use_weather_tool_always(query) == TRUE

\* AnswerAgent._should_use_weather_tool
AnswerAgent_should_use_weather_tool(query) ==
    AnyIn(<<<<"w","e","a","t","h","e","r">>, <<"t","e","m","p","e","r","a","t","u","r","e">>, <<"f","o","r","e","c","a","s","t">>, <<"c","l","i","m","a","t","e">>,
            <<"r","a","i","n">>, <<"s","n","o","w">>, <<"s","u","n","n","y">>, <<"c","l","o","u","d","y">>>>, Lower(query))

\* str(e) of the exceptions the code itself raises
StripOfList == <<"'","l","i","s","t","'"," ","o","b","j","e","c","t"," ","h","a","s"," ","n","o"," ","a","t","t","r","i","b","u","t","e"," ","'","s","t","r","i","p","'">>
RecursionError == <<"R","e","c","u","r","s","i","o","n"," ","l","i","m","i","t"," ","r","e","a","c","h","e","d">>
NoFallbackMethod == <<"'","U","I","A","g","e","n","t","'"," ","o","b","j","e","c","t"," ","h","a","s"," ","n","o"," ","a","t","t","r","i","b","u","t","e"," ","'","_","f","a","l","l","b","a","c","k","_","i","n","f","o","_","c","a","r","d","'">>
Apology == <<"I"," ","a","p","o","l","o","g","i","z","e",","," ","b","u","t"," ","I"," ","e","n","c","o","u","n","t","e","r","e","d"," ","a","n"," ","e","r","r","o","r"," ","w","h","i","l","e"," ","p","r","o","c","e","s","s","i","n","g"," ","y","o","u","r"," ","q","u","e","r","y",".">>

\* The pipeline's graph with an edge from ui_agent back to answer_agent.
MultiAgentGraph_build_graph_back_edge(node) ==
    CASE node = "answer_agent" -> "ui_agent"
      [] node = "ui_agent" -> "answer_agent"
      [] node = "finalize" -> "END"

\* MultiAgentGraph._build_graph: the node that follows node
MultiAgentGraph_build_graph(node) ==
    CASE node = "answer_agent" -> "ui_agent"
      [] node = "ui_agent" -> "finalize"
      [] node = "finalize" -> "END"

\* _answer_node after generate_answer returned answer
AnswerNodeReturns(answer) ==
    /\ state' = [state EXCEPT !.answer = answer,
                              !.messages = @ \o <<HumanMessage(state.query),
                                                  AIMessage(answer, <<>>)>>]
    /\ gNode' = MultiAgentGraph_build_graph("answer_agent")
    /\ aPc' = "done" /\ aMessages' = <<>> /\ aSteps' = 0
\* _answer_node after generate_answer raised e
AnswerNodeExcept(e) ==
    /\ state' = [state EXCEPT !.error = <<"A","n","s","w","e","r"," ","A","g","e","n","t"," ","E","r","r","o","r",":"," ">> \o e,
                              !.answer = Apology]
    /\ gNode' = MultiAgentGraph_build_graph("answer_agent")
    /\ aPc' = "done" /\ aMessages' = <<>> /\ aSteps' = 0
\* generate_answer's except clause is entered: the fallback prompt comes next
AnswerExcept ==
    /\ aPc' = "fallback" /\ aMessages' = <<>> /\ aSteps' = 0
    /\ UNCHANGED <<gNode, state>>
\* return self.parser.parse(content), inside generate_answer's try
AnswerParseAndReturn(content) ==
    IF IsStr(content) THEN AnswerNodeReturns(AnswerOutputParser_parse(content))
    ELSE AnswerExcept

\* MultiAgentGraph.process_query up to generate_answer's first model call
process_query(query, context) ==
    /\ gNode = "idle"
    /\ gNode' = "answer_agent"
    /\ state' = [query |-> query, context |-> context, answer |-> <<>>,
                 component |-> JNull, reasoning |-> <<>>, messages |-> <<>>,
                 error |-> None]
    /\ IF AnswerAgent_should_use_weather_tool(query)
       THEN /\ aPc' = "agent"
            /\ aMessages' = <<HumanMessage(<<"U","s","e","r"," ","Q","u","e","r","y",":"," ">> \o query)>>
       ELSE /\ aPc' = "direct"
            /\ aMessages' = <<>>
    /\ aSteps' = 0
    /\ UNCHANGED <<response, uPc, uMessages, uSteps, uInvocations, uFallbackInvocations, uResult>>
    /\ UNCHANGED <<dynamicVars, routerVars, serviceVars, toolVars, agentVars>>

\* AnswerAgent._call_model, a super-step of the graph
AnswerAgent_call_model ==
    /\ gNode = "answer_agent" /\ aPc = "agent"
    /\ \E r \in ModelReplies(AnswerContents, AnswerToolCalls) :
          IF aSteps >= RecursionLimit \/ r.raised
          THEN AnswerExcept
          ELSE /\ aMessages' = Append(aMessages, r.message)
               /\ aPc' = AnswerAgent_build_graph("agent", aMessages')
               /\ aSteps' = aSteps + 1
               /\ UNCHANGED <<gNode, state>>
    /\ UNCHANGED <<response, uPc, uMessages, uSteps, uInvocations, uFallbackInvocations, uResult>>
    /\ UNCHANGED <<dynamicVars, routerVars, serviceVars, toolVars, agentVars>>

\* AnswerAgent.tool_node, a super-step of the graph
AnswerAgent_tool_node ==
    /\ gNode = "answer_agent" /\ aPc = "tools"
    /\ LET calls == Last(aMessages).tool_calls
       IN  \E draws \in [1..Len(calls) -> WeatherDraws], handled \in BOOLEAN :
             LET Run == [i \in 1..Len(calls) |->
                            MockWeatherTool_run(calls[i].args, draws[i])]
             IN  IF \/ aSteps >= RecursionLimit
                    \/ ~handled /\ ToolNodeFails(calls, AnswerToolNames, Run)
                 THEN AnswerExcept
                 ELSE /\ aMessages' =
                            aMessages \o ToolNodeMessages(calls, AnswerToolNames, Run)
                      /\ aPc' = AnswerAgent_build_graph("tools", aMessages')
                      /\ aSteps' = aSteps + 1
                      /\ UNCHANGED <<gNode, state>>
    /\ UNCHANGED <<response, uPc, uMessages, uSteps, uInvocations, uFallbackInvocations, uResult>>
    /\ UNCHANGED <<dynamicVars, routerVars, serviceVars, toolVars, agentVars>>

\* generate_answer after graph.invoke returned: lines 156-159
AnswerAgent_graph_end ==
    /\ gNode = "answer_agent" /\ aPc = "END"
    /\ LET content == Last(aMessages).content.chars
       IN  IF content # <<>>
           THEN AnswerParseAndReturn(content)
           ELSE /\ aPc' = "direct" /\ aMessages' = <<>> /\ aSteps' = 0
                /\ UNCHANGED <<gNode, state>>
    /\ UNCHANGED <<response, uPc, uMessages, uSteps, uInvocations, uFallbackInvocations, uResult>>
    /\ UNCHANGED <<dynamicVars, routerVars, serviceVars, toolVars, agentVars>>

\* generate_answer's direct completion: lines 162-164
AnswerAgent_direct ==
    /\ gNode = "answer_agent" /\ aPc = "direct"
    /\ \E r \in ModelReplies(AnswerContents, {}) :
          IF r.raised THEN AnswerExcept
          ELSE AnswerParseAndReturn(r.message.content.chars)
    /\ UNCHANGED <<response, uPc, uMessages, uSteps, uInvocations, uFallbackInvocations, uResult>>
    /\ UNCHANGED <<dynamicVars, routerVars, serviceVars, toolVars, agentVars>>

\* generate_answer's except clause: lines 166-170
AnswerAgent_fallback ==
    /\ gNode = "answer_agent" /\ aPc = "fallback"
    /\ \E r \in ModelReplies(AnswerContents, {}) :
          IF r.raised THEN AnswerNodeExcept(ModelError)
          ELSE IF ~IsStr(r.message.content.chars) THEN AnswerNodeExcept(StripOfList)
          ELSE AnswerNodeReturns(AnswerOutputParser_parse(r.message.content.chars))
    /\ UNCHANGED <<response, uPc, uMessages, uSteps, uInvocations, uFallbackInvocations, uResult>>
    /\ UNCHANGED <<dynamicVars, routerVars, serviceVars, toolVars, agentVars>>

(***************************************************************************)
(* UIAgent (packages/api/agents/ui_agent.py)                                *)
(***************************************************************************)
\* What class UIAgent defines.
UIAgentAttributes ==
    {"llm", "weather_tool", "chart_tool", "table_tool", "info_tool", "tools",
     "tool_node", "llm_with_tools", "graph", "fallback_prompt",
     "_build_graph", "_call_model", "_should_continue", "_finalize_response",
     "select_component", "aselect_component"}

\* UIAgent.graph as _build_graph compiles it: the entry point and the edges
UIAgentGraph ==
    [entry |-> "agent",
     edges |-> {<<"agent", "tools">>, <<"agent", "finalize">>,
                <<"tools", "finalize">>, <<"finalize", "END">>}]

\* UIAgent._should_continue
UIAgent_should_continue(messages) ==
    IF Last(messages).tool_calls # <<>> THEN "continue" ELSE "end"

\* The graph with the edge from tools back to agent.
UIAgent_build_graph_tools_to_agent(node, messages) ==
    CASE node = "agent" ->
            IF UIAgent_should_continue(messages) = "continue"
            THEN "tools" ELSE "finalize"
      [] node = "tools" -> "agent"
      [] node = "finalize" -> "END"

\* The graph with an edge from finalize back to agent.
UIAgent_build_graph_finalize_to_agent(node, messages) ==
    CASE node = "agent" ->
            IF UIAgent_should_continue(messages) = "continue"
            THEN "tools" ELSE "finalize"
      [] node = "tools" -> "finalize"
      [] node = "finalize" -> "agent"

\* UIAgent._build_graph: the node that follows node
UIAgent_build_graph(node, messages) ==
    CASE node = "agent" ->
            IF UIAgent_should_continue(messages) = "continue"
            THEN "tools" ELSE "finalize"
      [] node = "tools" -> "finalize"
      [] node = "finalize" -> "END"

\* The tool messages whose content json.loads accepts, and below the index
\* of the one _finalize_response stops at, the newest (0: there is none).
ParsedToolMessages(messages) ==
    {i \in 1..Len(messages) :
        messages[i].type = "tool" /\ ~JsonDecodeError(messages[i].content)}
\* A scan from oldest to newest, that stops at the first one that parses.
NewestParsed_oldest(messages) ==
    IF ParsedToolMessages(messages) = {} THEN 0
    ELSE CHOOSE i \in ParsedToolMessages(messages) :
            \A j \in ParsedToolMessages(messages) : i <= j
NewestParsed(messages) ==
    IF ParsedToolMessages(messages) = {} THEN 0
    ELSE CHOOSE i \in ParsedToolMessages(messages) :
            \A j \in ParsedToolMessages(messages) : j <= i

\* The card built with the query's answer left out.
UIAgent_fallback_component_without_answer(answer) ==
    InfoCardTool_run(JObj({<<<<"t","i","t","l","e">>, JStr(<<"I","n","f","o","r","m","a","t","i","o","n">>)>>,
                           <<<<"c","o","n","t","e","n","t">>, JStr(<<>>)>>,
                           <<<<"v","a","r","i","a","n","t">>, JStr(<<"d","e","f","a","u","l","t">>)>>}))

\* The info card _finalize_response builds when no tool result parsed:
\* info_tool._run(title="Information", content=answer, variant="default")
UIAgent_fallback_component(answer) ==
    InfoCardTool_run(JObj({<<<<"t","i","t","l","e">>, JStr(<<"I","n","f","o","r","m","a","t","i","o","n">>)>>,
                           <<<<"c","o","n","t","e","n","t">>, JStr(answer)>>,
                           <<<<"v","a","r","i","a","n","t">>, JStr(<<"d","e","f","a","u","l","t">>)>>}))

\* What the spec's section 4.5 asks of the method graph.py calls and class
\* UIAgent does not define.
UIAgent_fallback_info_card(answer, reasoning) ==
    [component |-> JObj({<<<<"t","y","p","e">>, JStr(<<"i","n","f","o","_","c","a","r","d">>)>>,
                         <<<<"t","i","t","l","e">>, JStr(<<"I","n","f","o","r","m","a","t","i","o","n">>)>>,
                         <<<<"c","o","n","t","e","n","t">>, JStr(answer)>>,
                         <<<<"i","c","o","n">>, JNull>>,
                         <<<<"v","a","r","i","a","n","t">>, JStr(<<"d","e","f","a","u","l","t">>)>>}),
     reasoning |-> reasoning]

\* _ui_node's except clause, e the exception caught: lines 91-97
UINodeExcept(e) ==
    IF "_fallback_info_card" \in UIAgentAttributes
    THEN LET fallback_result ==
                 UIAgent_fallback_info_card(state.answer, <<"U","I"," ","s","e","l","e","c","t","i","o","n"," ","f","a","i","l","e","d",":"," ">> \o e)
         IN  /\ state' = [state EXCEPT !.error = <<"U","I"," ","A","g","e","n","t"," ","E","r","r","o","r",":"," ">> \o e,
                                       !.component = fallback_result.component,
                                       !.reasoning = fallback_result.reasoning]
             /\ gNode' = MultiAgentGraph_build_graph("ui_agent")
    ELSE /\ state' = [state EXCEPT !.error = <<"U","I"," ","A","g","e","n","t"," ","E","r","r","o","r",":"," ">> \o e]
         /\ gNode' = "raised"

\* select_component raises e to _ui_node
SelectComponentRaises(e) ==
    /\ uPc' = "raised"
    /\ UINodeExcept(e)

\* MultiAgentGraph._ui_node up to select_component's first model call
MultiAgentGraph_ui_node ==
    /\ gNode = "ui_agent" /\ uPc = "idle"
    /\ IF state.error # None
       THEN IF "_fallback_info_card" \in UIAgentAttributes
            THEN LET ui_result == UIAgent_fallback_info_card(
                                      state.answer, <<"E","r","r","o","r"," ","o","c","c","u","r","r","e","d"," ","i","n"," ","p","r","e","v","i","o","u","s"," ","s","t","e","p">>)
                 IN  /\ state' = [state EXCEPT !.component = ui_result.component,
                                               !.reasoning = ui_result.reasoning]
                     /\ gNode' = MultiAgentGraph_build_graph("ui_agent")
                     /\ UNCHANGED <<uPc, uMessages, uSteps, uInvocations, uFallbackInvocations, uResult>>
            ELSE /\ UINodeExcept(NoFallbackMethod)
                 /\ UNCHANGED <<uPc, uMessages, uSteps, uInvocations, uFallbackInvocations, uResult>>
       ELSE /\ uPc' = uGraph.entry
            /\ uMessages' = <<HumanMessage(<<"U","s","e","r"," ","Q","u","e","r","y",":"," ">> \o state.query
                                           \o <<"\n","G","e","n","e","r","a","t","e","d"," ","A","n","s","w","e","r",":"," ">> \o state.answer)>>
            /\ uSteps' = 0 /\ uInvocations' = 0 /\ uFallbackInvocations' = 0
            /\ uResult' = [component |-> EmptyDict, reasoning |-> <<>>]
            /\ UNCHANGED <<gNode, state>>
    /\ UNCHANGED <<response, aPc, aMessages, aSteps>>
    /\ UNCHANGED <<dynamicVars, routerVars, serviceVars, toolVars, agentVars>>

\* UIAgent._call_model, a super-step of the graph
UIAgent_call_model ==
    /\ gNode = "ui_agent" /\ uPc = "agent"
    /\ \E r \in ModelReplies({<<>>}, UIToolCalls) :
          IF uSteps >= RecursionLimit
          THEN SelectComponentRaises(RecursionError)
               /\ UNCHANGED <<uMessages, uSteps, uInvocations>>
          ELSE IF r.raised
          THEN SelectComponentRaises(ModelError)
               /\ uInvocations' = uInvocations + 1
               /\ UNCHANGED <<uMessages, uSteps>>
          ELSE /\ uMessages' = Append(uMessages, r.message)
               /\ uPc' = UIAgent_build_graph("agent", uMessages')
               /\ uSteps' = uSteps + 1
               /\ uInvocations' = uInvocations + 1
               /\ UNCHANGED <<gNode, state>>
    /\ UNCHANGED <<response, aPc, aMessages, aSteps, uFallbackInvocations, uResult>>
    /\ UNCHANGED <<dynamicVars, routerVars, serviceVars, toolVars, agentVars>>

\* UIAgent.tool_node, a super-step of the graph
UIAgent_tool_node ==
    /\ gNode = "ui_agent" /\ uPc = "tools"
    /\ LET calls == Last(uMessages).tool_calls
           Run == [i \in 1..Len(calls) |->
                     IF calls[i].name \in uTools
                     THEN UIToolRun(calls[i].name, calls[i].args)
                     ELSE ToolRaises]
       IN  \E handled \in BOOLEAN :
             IF uSteps >= RecursionLimit
             THEN SelectComponentRaises(RecursionError)
                  /\ UNCHANGED <<uMessages, uSteps>>
             ELSE IF ~handled /\ ToolNodeFails(calls, uTools, Run)
             THEN SelectComponentRaises(ToolErrorText)
                  /\ UNCHANGED <<uMessages, uSteps>>
             ELSE /\ uMessages' = uMessages \o ToolNodeMessages(calls, uTools, Run)
                  /\ uPc' = UIAgent_build_graph("tools", uMessages')
                  /\ uSteps' = uSteps + 1
                  /\ UNCHANGED <<gNode, state>>
    /\ UNCHANGED <<response, aPc, aMessages, aSteps, uInvocations, uFallbackInvocations, uResult>>
    /\ UNCHANGED <<dynamicVars, routerVars, serviceVars, toolVars, agentVars>>

\* UIAgent._finalize_response, a super-step of the graph, with the reply r
\* of the reasoning model call it makes when no tool result parsed
UIAgent_finalize_response ==
    /\ gNode = "ui_agent" /\ uPc = "finalize"
    /\ LET i == NewestParsed(uMessages)
       IN  IF uSteps >= RecursionLimit
           THEN SelectComponentRaises(RecursionError)
                /\ UNCHANGED <<uSteps, uFallbackInvocations, uResult>>
           ELSE IF i # 0
           THEN LET component_data == JsonLoads(uMessages[i].content)
                IN  IF component_data.t # "obj"
                    THEN SelectComponentRaises(<<"o","b","j","e","c","t"," ","h","a","s"," ","n","o"," ","a","t","t","r","i","b","u","t","e"," ","'","g","e","t","'">>)
                         /\ UNCHANGED <<uSteps, uFallbackInvocations, uResult>>
                    ELSE /\ uResult' =
                               [component |-> component_data,
                                reasoning |->
                                    <<"S","e","l","e","c","t","e","d"," ">>
                                    \o GetOr(component_data, <<"t","y","p","e">>, JStr(<<"c","o","m","p","o","n","e","n","t">>)).s
                                    \o <<" ","b","a","s","e","d"," ","o","n"," ","q","u","e","r","y"," ","c","o","n","t","e","n","t">>]
                         /\ uPc' = UIAgent_build_graph("finalize", uMessages)
                         /\ uSteps' = uSteps + 1
                         /\ UNCHANGED <<gNode, state, uFallbackInvocations>>
           ELSE LET fallback_component == UIAgent_fallback_component(state.answer)
                IN  \E r \in ModelReplies(AnswerContents, {}) :
                      IF ~fallback_component.ok
                      THEN SelectComponentRaises(<<"v","a","l","i","d","a","t","i","o","n"," ","e","r","r","o","r"," ","f","o","r"," ","I","n","f","o","C","a","r","d","S","c","h","e","m","a">>)
                           /\ UNCHANGED <<uSteps, uFallbackInvocations, uResult>>
                      ELSE IF r.raised
                      THEN SelectComponentRaises(ModelError)
                           /\ uFallbackInvocations' = uFallbackInvocations + 1
                           /\ UNCHANGED <<uSteps, uResult>>
                      ELSE IF ~IsStr(r.message.content.chars)
                      THEN SelectComponentRaises(StripOfList)
                           /\ uFallbackInvocations' = uFallbackInvocations + 1
                           /\ UNCHANGED <<uSteps, uResult>>
                      ELSE /\ uResult' =
                                 [component |-> JsonLoads(fallback_component.text),
                                  reasoning |-> Strip(r.message.content.chars)]
                           /\ uPc' = UIAgent_build_graph("finalize", uMessages)
                           /\ uSteps' = uSteps + 1
                           /\ uFallbackInvocations' = uFallbackInvocations + 1
                           /\ UNCHANGED <<gNode, state>>
    /\ UNCHANGED <<response, aPc, aMessages, aSteps, uMessages, uInvocations>>
    /\ UNCHANGED <<dynamicVars, routerVars, serviceVars, toolVars, agentVars>>

\* select_component returns what the graph state holds, and _ui_node stores
\* it: ui_agent.py lines 308-312, graph.py lines 88-89
UIAgent_select_component_returns ==
    /\ gNode = "ui_agent" /\ uPc = "END"
    /\ uPc' = "returned"
    /\ state' = [state EXCEPT !.component = uResult.component,
                              !.reasoning = uResult.reasoning]
    /\ gNode' = MultiAgentGraph_build_graph("ui_agent")
    /\ UNCHANGED <<response, aPc, aMessages, aSteps,
                   uMessages, uSteps, uInvocations, uFallbackInvocations, uResult>>
    /\ UNCHANGED <<dynamicVars, routerVars, serviceVars, toolVars, agentVars>>

(***************************************************************************)
(* MultiAgentGraph (packages/api/agents/graph.py)                           *)
(***************************************************************************)
NoResponse == [answer |-> None, component |-> JNull, reasoning |-> None]

ComponentTypes == {<<"w","e","a","t","h","e","r","_","c","a","r","d">>, <<"c","h","a","r","t","_","c","a","r","d">>, <<"d","a","t","a","_","t","a","b","l","e">>, <<"i","n","f","o","_","c","a","r","d">>}

\* AgentResponse(...) accepts the component: None, or a mapping whose type
\* tag is one of the component schemas'.
AgentResponseAccepts(component) ==
    \/ component = JNull
    \/ /\ component.t = "obj"
       /\ HasKey(component, <<"t","y","p","e">>)
       /\ Get(component, <<"t","y","p","e">>).t = "str"
       /\ Get(component, <<"t","y","p","e">>).s \in ComponentTypes

\* MultiAgentGraph._finalize_node, and the graph's end
MultiAgentGraph_finalize_node ==
    /\ gNode = "finalize"
    /\ gNode' = MultiAgentGraph_build_graph("finalize")
    /\ UNCHANGED <<state, response, aPc, aMessages, aSteps,
                   uPc, uMessages, uSteps, uInvocations, uFallbackInvocations, uResult>>
    /\ UNCHANGED <<dynamicVars, routerVars, serviceVars, toolVars, agentVars>>

\* process_query after graph.invoke returned: lines 117-121
process_query_returns ==
    /\ gNode = "END"
    /\ IF AgentResponseAccepts(state.component)
       THEN /\ response' = [answer |-> state.answer,
                            component |-> state.component,
                            reasoning |-> state.reasoning]
            /\ gNode' = "returned"
       ELSE /\ gNode' = "raised"
            /\ UNCHANGED response
    /\ UNCHANGED <<state, aPc, aMessages, aSteps,
                   uPc, uMessages, uSteps, uInvocations, uFallbackInvocations, uResult>>
    /\ UNCHANGED <<dynamicVars, routerVars, serviceVars, toolVars, agentVars>>


\* The caller has the response or the exception; the GraphState of the call
\* is gone, and the graph waits for the next call.
process_query_next ==
    /\ gNode \in {"returned", "raised"}
    /\ gNode' = "idle"
    /\ state' = [query |-> <<>>, context |-> <<>>, answer |-> <<>>,
                 component |-> JNull, reasoning |-> <<>>, messages |-> <<>>,
                 error |-> None]
    /\ response' = NoResponse
    /\ aPc' = "idle" /\ aMessages' = <<>> /\ aSteps' = 0
    /\ uPc' = "idle" /\ uMessages' = <<>> /\ uSteps' = 0 /\ uInvocations' = 0 /\ uFallbackInvocations' = 0
    /\ uResult' = [component |-> EmptyDict, reasoning |-> <<>>]
    /\ UNCHANGED <<dynamicVars, routerVars, serviceVars, toolVars, agentVars>>
(***************************************************************************)
(* DynamicToolGenerator and DynamicUIAgent (services/agent-service)         *)
(***************************************************************************)
\* AgentExecutor(..., max_iterations=3)
max_iterations == 3

\* The schemas initialize_tools may be given: an info card whose tool
\* requires title and content, and a schema with no tool definition.
InfoCardSchemaDef ==
    JObj({<<<<"n","a","m","e">>, JStr(<<"I","n","f","o"," ","C","a","r","d">>)>>,
          <<<<"c","a","t","e","g","o","r","y">>, JStr(<<"c","o","n","t","e","n","t">>)>>,
          <<<<"t","o","o","l","_","d","e","f","i","n","i","t","i","o","n">>,
            JObj({<<<<"n","a","m","e">>, JStr(<<"r","e","n","d","e","r","_","i","n","f","o","_","c","a","r","d">>)>>,
                  <<<<"p","a","r","a","m","e","t","e","r","s">>,
                    JObj({<<<<"r","e","q","u","i","r","e","d">>, JList(<<JStr(<<"t","i","t","l","e">>), JStr(<<"c","o","n","t","e","n","t">>)>>)>>})>>})>>})
BareSchemaDef == JObj({<<<<"n","a","m","e">>, JStr(<<"B","a","d","g","e">>)>>})
\* A schema with no name, whose tool has one: schema['name'] raises KeyError.
NamelessSchemaDef ==
    JObj({<<<<"c","a","t","e","g","o","r","y">>, JStr(<<"c","o","n","t","e","n","t">>)>>,
          <<<<"t","o","o","l","_","d","e","f","i","n","i","t","i","o","n">>, JObj({<<<<"n","a","m","e">>, JStr(<<"r","e","n","d","e","r","_","t","e","x","t">>)>>})>>})
SchemaLists ==
    {<<>>, <<InfoCardSchemaDef>>, <<InfoCardSchemaDef, BareSchemaDef>>,
     <<NamelessSchemaDef>>, <<BareSchemaDef, NamelessSchemaDef, InfoCardSchemaDef>>}

\* create_tool_from_schema, lines 17-19: the tool's name
ToolNameOf(schema) ==
    LET tool_def == GetOr(schema, <<"t","o","o","l","_","d","e","f","i","n","i","t","i","o","n">>, EmptyDict)
    IN  GetOr(tool_def, <<"n","a","m","e">>, JStr(<<"r","e","n","d","e","r","_">> \o Lower(Get(schema, <<"n","a","m","e">>).s))).s

\* str.replace(" ", "_")
ReplaceSpaces(s) == [i \in 1..Len(s) |-> IF s[i] = " " THEN "_" ELSE s[i]]

\* The tool function naming the last missing parameter.
tool_function_last_missing(schema, kwargs) ==
    LET tool_def == GetOr(schema, <<"t","o","o","l","_","d","e","f","i","n","i","t","i","o","n">>, EmptyDict)
        required_params ==
            GetOr(GetOr(tool_def, <<"p","a","r","a","m","e","t","e","r","s">>, EmptyDict), <<"r","e","q","u","i","r","e","d">>, JList(<<>>)).l
        missing == {i \in 1..Len(required_params) :
                       ~HasKey(kwargs, required_params[i].s)}
    IN  IF missing # {}
        THEN LET last == CHOOSE i \in missing : \A j \in missing : i >= j
             IN  JsonDumps(JObj({<<<<"e","r","r","o","r">>,
                                   JStr(<<"M","i","s","s","i","n","g"," ","r","e","q","u","i","r","e","d"," ","p","a","r","a","m","e","t","e","r",":"," ">>
                                        \o required_params[last].s)>>}))
        ELSE JsonDumps(JObj({<<<<"c","o","m","p","o","n","e","n","t">>, kwargs>>}))

\* tool_function(**kwargs) of the tool made from schema: the JSON text it
\* returns.  required is walked in declared order.
tool_function(schema, kwargs) ==
    LET tool_def == GetOr(schema, <<"t","o","o","l","_","d","e","f","i","n","i","t","i","o","n">>, EmptyDict)
        required_params ==
            GetOr(GetOr(tool_def, <<"p","a","r","a","m","e","t","e","r","s">>, EmptyDict), <<"r","e","q","u","i","r","e","d">>, JList(<<>>)).l
        missing == {i \in 1..Len(required_params) :
                       ~HasKey(kwargs, required_params[i].s)}
    IN  IF missing # {}
        THEN LET first == CHOOSE i \in missing : \A j \in missing : i <= j
             IN  JsonDumps(JObj({<<<<"e","r","r","o","r">>,
                                   JStr(<<"M","i","s","s","i","n","g"," ","r","e","q","u","i","r","e","d"," ","p","a","r","a","m","e","t","e","r",":"," ">>
                                        \o required_params[first].s)>>}))
        ELSE LET type_tag == <<<<"t","y","p","e">>,
                               JStr(ReplaceSpaces(Lower(Get(schema, <<"n","a","m","e">>).s)))>>
                 \* {"type": ..., **kwargs}: a key of kwargs replaces the same key
                 component_data ==
                     JObj({p \in {type_tag} : ~HasKey(kwargs, p[1])} \cup kwargs.o)
             IN  JsonDumps(JObj({
                     <<<<"c","o","m","p","o","n","e","n","t">>, component_data>>,
                     <<<<"r","e","a","s","o","n","i","n","g">>,
                       JStr(<<"S","e","l","e","c","t","e","d"," ">> \o Get(schema, <<"n","a","m","e">>).s
                            \o <<" ","c","o","m","p","o","n","e","n","t"," ","b","a","s","e","d"," ","o","n"," ","t","h","e"," ","p","r","o","v","i","d","e","d"," ","d","a","t","a">>)>>}))

\* create_tools_from_schemas: one tool per schema whose creation does not
\* raise (schema['name'] is read for every schema), in input order
RECURSIVE create_tools_from_schemas(_)
create_tools_from_schemas(schemas) ==
    IF schemas = <<>> THEN <<>>
    ELSE (IF HasKey(Head(schemas), <<"n","a","m","e">>)
          THEN <<[name |-> ToolNameOf(Head(schemas)), schema |-> Head(schemas)]>>
          ELSE <<>>)
         \o create_tools_from_schemas(Tail(schemas))

\* get_tool_names: the name of every schema's tool, in input order; the
\* loop has no try, and schema['name'] is read for every schema
NamesReturned(names) == [raised |-> FALSE, names |-> names]
NamesRaised == [raised |-> TRUE, names |-> <<>>]
get_tool_names(schemas) ==
    IF \E i \in 1..Len(schemas) : ~HasKey(schemas[i], <<"n","a","m","e">>)
    THEN NamesRaised
    ELSE NamesReturned([i \in 1..Len(schemas) |-> ToolNameOf(schemas[i])])

\* _create_fallback_tool: the tool create_info_card, as a tool record whose
\* schema is the one of an info card with no required parameter checked
FallbackToolName == <<"c","r","e","a","t","e","_","i","n","f","o","_","c","a","r","d">>
\* fallback_info_card(title, content, **kwargs)
fallback_info_card(kwargs) ==
    JsonDumps(JObj({
        <<<<"c","o","m","p","o","n","e","n","t">>,
          JObj({<<<<"t","y","p","e">>, JStr(<<"i","n","f","o","_","c","a","r","d">>)>>,
                <<<<"t","i","t","l","e">>, Get(kwargs, <<"t","i","t","l","e">>)>>,
                <<<<"c","o","n","t","e","n","t">>, Get(kwargs, <<"c","o","n","t","e","n","t">>)>>,
                <<<<"v","a","r","i","a","n","t">>, JStr(<<"d","e","f","a","u","l","t">>)>>})>>,
        <<<<"r","e","a","s","o","n","i","n","g">>, JStr(<<"U","s","e","d"," ","f","a","l","l","b","a","c","k"," ","i","n","f","o"," ","c","a","r","d"," ","c","o","m","p","o","n","e","n","t">>)>>}))
FallbackTool == [name |-> FallbackToolName, schema |-> JNull]

\* An agent created with the tools it has, with no fallback tool.
DynamicUIAgent_create_agent_no_fallback(tools) == tools
\* _create_agent, lines 32-34: the tools the executor is built with
DynamicUIAgent_create_agent(tools) ==
    IF tools = <<>> THEN <<FallbackTool>> ELSE tools

\* The fallback card with the title of UIAgent's card.
DynamicUIAgent_fallback_info_card_information(content, reasoning) ==
    [component |-> JObj({<<<<"t","y","p","e">>, JStr(<<"i","n","f","o","_","c","a","r","d">>)>>,
                         <<<<"t","i","t","l","e">>, JStr(<<"I","n","f","o","r","m","a","t","i","o","n">>)>>,
                         <<<<"c","o","n","t","e","n","t">>, JStr(content)>>,
                         <<<<"v","a","r","i","a","n","t">>, JStr(<<"d","e","f","a","u","l","t">>)>>}),
     reasoning |-> JStr(reasoning)]
\* DynamicUIAgent._fallback_info_card
DynamicUIAgent_fallback_info_card(content, reasoning) ==
    [component |-> JObj({<<<<"t","y","p","e">>, JStr(<<"i","n","f","o","_","c","a","r","d">>)>>,
                         <<<<"t","i","t","l","e">>, JStr(<<"R","e","s","p","o","n","s","e">>)>>,
                         <<<<"c","o","n","t","e","n","t">>, JStr(content)>>,
                         <<<<"v","a","r","i","a","n","t">>, JStr(<<"d","e","f","a","u","l","t">>)>>}),
     reasoning |-> JStr(reasoning)]

\* What agent_executor.invoke gave select_component.
NoOutcome == [kind |-> "none", text |-> Raw(<<>>)]
ExecutorRaised(e) == [kind |-> "raised", text |-> Raw(e)]
ExecutorResult(output) == [kind |-> "output", text |-> output]
\* a result mapping without the key "output"
ExecutorNoOutput == [kind |-> "no_output", text |-> Raw(<<>>)]

\* select_component, lines 127-144, given what the executor did
DynamicUIAgent_parse_result(outcome, answer) ==
    CASE outcome.kind = "raised" ->
            DynamicUIAgent_fallback_info_card(
                answer, <<"E","r","r","o","r"," ","i","n"," ","c","o","m","p","o","n","e","n","t"," ","s","e","l","e","c","t","i","o","n",":"," ">> \o outcome.text.chars)
      [] outcome.kind = "no_output" ->
            DynamicUIAgent_fallback_info_card(answer, <<"N","o"," ","c","o","m","p","o","n","e","n","t"," ","s","e","l","e","c","t","e","d">>)
      [] outcome.kind = "output" ->
            IF JsonDecodeError(outcome.text)
            THEN DynamicUIAgent_fallback_info_card(answer, outcome.text.chars)
            ELSE LET response_data == JsonLoads(outcome.text)
                 IN  IF response_data.t # "obj"
                     THEN DynamicUIAgent_fallback_info_card(
                              answer, <<"E","r","r","o","r"," ","i","n"," ","c","o","m","p","o","n","e","n","t"," ","s","e","l","e","c","t","i","o","n",":"," ">>
                                      \o <<"o","b","j","e","c","t"," ","h","a","s"," ","n","o"," ","a","t","t","r","i","b","u","t","e"," ","'","g","e","t","'">>)
                     ELSE [component |-> GetOr(response_data, <<"c","o","m","p","o","n","e","n","t">>, EmptyDict),
                           reasoning |-> GetOr(response_data, <<"r","e","a","s","o","n","i","n","g">>,
                                               JStr(<<"C","o","m","p","o","n","e","n","t"," ","s","e","l","e","c","t","e","d"," ","b","y"," ","a","g","e","n","t">>))]

\* The loop with its test off by one.
AgentExecutor_should_continue_off_by_one(iterations) == iterations <= max_iterations
\* The agent executor's loop runs another iteration.
AgentExecutor_should_continue(iterations) == iterations < max_iterations
\* The output of an executor stopped at its iteration limit.
AgentStoppedText == <<"A","g","e","n","t"," ","s","t","o","p","p","e","d"," ","d","u","e"," ","t","o"," ","i","t","e","r","a","t","i","o","n"," ","l","i","m","i","t"," ","o","r"," ","t","i","m","e"," ","l","i","m","i","t",".">>

\* What the model may answer the executor with.
Answers == {<<"I","t"," ","i","s"," ","s","u","n","n","y",".">>, <<>>}
DynamicQueries == {<<"w","e","a","t","h","e","r","?">>}
\* arguments of a tool call
DynamicToolArgs ==
    {JObj({<<<<"t","i","t","l","e">>, JStr(<<"N","o","t","e">>)>>, <<<<"c","o","n","t","e","n","t">>, JStr(<<"h","e","l","l","o">>)>>}),
     JObj({<<<<"c","o","n","t","e","n","t">>, JStr(<<"h","e","l","l","o">>)>>}),
     JObj({<<<<"t","i","t","l","e">>, JStr(<<"N","o","t","e">>)>>, <<<<"c","o","n","t","e","n","t">>, JStr(<<"h","e","l","l","o">>)>>,
           <<<<"t","y","p","e">>, JStr(<<"b","a","n","n","e","r">>)>>})}
\* final texts of the model that are not a tool's observation
DynamicFinalTexts ==
    {Raw(<<>>), Raw(<<"S","e","l","e","c","t","e","d"," ","t","h","e"," ","i","n","f","o"," ","c","a","r","d",".">>), JsonDumps(JNum(<<"4","2">>))}

\* The observation of one tool call: the tool's text, or an error text for
\* a name that is no tool of the executor.
Observation(tools, name, args) ==
    IF \E i \in 1..Len(tools) : tools[i].name = name
    THEN LET tool == tools[CHOOSE i \in 1..Len(tools) : tools[i].name = name]
         IN  IF tool = FallbackTool
             THEN IF HasKey(args, <<"t","i","t","l","e">>) /\ HasKey(args, <<"c","o","n","t","e","n","t">>)
                  THEN [raised |-> FALSE, text |-> fallback_info_card(args)]
                  ELSE [raised |-> TRUE, text |-> Raw(<<"m","i","s","s","i","n","g"," ","p","o","s","i","t","i","o","n","a","l"," ","a","r","g","u","m","e","n","t">>)]
             ELSE [raised |-> FALSE, text |-> tool_function(tool.schema, args)]
    ELSE [raised |-> FALSE, text |-> Raw(name \o <<" ","i","s"," ","n","o","t"," ","a"," ","v","a","l","i","d"," ","t","o","o","l">>)]

NoArgs == [query |-> <<>>, answer |-> <<>>]
NoResult == [component |-> JNull, reasoning |-> JNull]

\* DynamicUIAgent.initialize_tools
initialize_tools(schemas) ==
    /\ dPc \in {"idle", "returned"}
    /\ dSchemas' = schemas
    /\ dTools' = DynamicUIAgent_create_agent(create_tools_from_schemas(schemas))
    /\ dExecutor' = TRUE
    /\ dPc' = "idle" /\ dArgs' = NoArgs /\ dIterations' = 0
    /\ dOutput' = NoOutcome /\ dResult' = NoResult /\ dObservations' = <<>>
    /\ UNCHANGED <<pipelineVars, routerVars, serviceVars, toolVars, agentVars>>

\* A select_component that creates the agent when there is none.
DynamicUIAgent_select_component_creates_agent(query, answer) ==
    /\ dPc = "idle"
    /\ dArgs' = [query |-> query, answer |-> answer]
    /\ dIterations' = 0 /\ dObservations' = <<>>
    /\ dPc' = "executor" /\ dOutput' = NoOutcome /\ dResult' = NoResult
    /\ dTools' = (IF dExecutor THEN dTools ELSE DynamicUIAgent_create_agent(dTools))
    /\ dExecutor' = TRUE
    /\ UNCHANGED <<dSchemas, pipelineVars, routerVars, serviceVars, toolVars, agentVars>>

\* DynamicUIAgent.select_component up to the executor's first model call
DynamicUIAgent_select_component(query, answer) ==
    /\ dPc = "idle"
    /\ dArgs' = [query |-> query, answer |-> answer]
    /\ dIterations' = 0 /\ dObservations' = <<>>
    /\ IF ~dExecutor
       THEN /\ dPc' = "returned"
            /\ dOutput' = NoOutcome
            /\ dResult' = DynamicUIAgent_fallback_info_card(answer, <<"A","g","e","n","t"," ","n","o","t"," ","i","n","i","t","i","a","l","i","z","e","d">>)
       ELSE /\ dPc' = "executor"
            /\ dOutput' = NoOutcome
            /\ dResult' = NoResult
    /\ UNCHANGED <<dSchemas, dTools, dExecutor, pipelineVars, routerVars, serviceVars, toolVars, agentVars>>

\* select_component once the executor is through: the rest of the method
SelectComponentEnds(outcome) ==
    /\ dOutput' = outcome
    /\ dResult' = DynamicUIAgent_parse_result(outcome, dArgs.answer)
    /\ dPc' = "returned"
    /\ UNCHANGED <<dIterations, dObservations>>

\* One iteration of the executor: the model is asked; it ends with a final
\* text, or asks for a tool, which is run and its observation kept.
AgentExecutor_iteration ==
    /\ dPc = "executor" /\ AgentExecutor_should_continue(dIterations)
    /\ \/ SelectComponentEnds(ExecutorRaised(ModelError))
       \/ SelectComponentEnds(ExecutorNoOutput)
       \/ \E text \in DynamicFinalTexts \cup {dObservations[i] : i \in 1..Len(dObservations)} :
             SelectComponentEnds(ExecutorResult(text))
       \/ \E name \in {dTools[i].name : i \in 1..Len(dTools)} \cup {<<"r","e","n","d","e","r","_","m","a","p">>},
             args \in DynamicToolArgs :
             LET obs == Observation(dTools, name, args)
             IN  IF obs.raised
                 THEN SelectComponentEnds(ExecutorRaised(obs.text.chars))
                 ELSE /\ dObservations' = Append(dObservations, obs.text)
                      /\ dIterations' = dIterations + 1
                      /\ UNCHANGED <<dPc, dOutput, dResult>>
    /\ UNCHANGED <<dSchemas, dTools, dExecutor, dArgs, pipelineVars, routerVars, serviceVars, toolVars, agentVars>>

\* The executor leaves its loop at the iteration limit.
AgentExecutor_stopped ==
    /\ dPc = "executor" /\ ~AgentExecutor_should_continue(dIterations)
    /\ SelectComponentEnds(ExecutorResult(Raw(AgentStoppedText)))
    /\ UNCHANGED <<dSchemas, dTools, dExecutor, dArgs, pipelineVars, routerVars, serviceVars, toolVars, agentVars>>

\* The caller takes the result; the agent waits for the next call.
DynamicUIAgent_next_call ==
    /\ dPc = "returned"
    /\ dPc' = "idle" /\ dArgs' = NoArgs /\ dIterations' = 0
    /\ dOutput' = NoOutcome /\ dResult' = NoResult /\ dObservations' = <<>>
    /\ UNCHANGED <<dSchemas, dTools, dExecutor, pipelineVars, routerVars, serviceVars, toolVars, agentVars>>

(***************************************************************************)
(* RouterAgent (services/agent-service/app/agents/router_agent.py)          *)
(***************************************************************************)
\* self.categories as __init__ sets it: the keys, in the order of the dict
RouterCategories == <<<<"d","a","t","a","_","d","i","s","p","l","a","y">>, <<"d","a","t","a","_","v","i","s","u","a","l","i","z","a","t","i","o","n">>, <<"c","o","n","t","e","n","t">>, <<"g","e","n","e","r","a","l">>>>

\* A function's outcome: it returns value, or raises.
Returns(value) == [raised |-> FALSE, value |-> value]
Raises == [raised |-> TRUE, value |-> None]

\* The rules with the chart rule tried before the weather rule.
RouterAgent_rule_based_routing_chart_first(query, answer) ==
    LET combined_text == Lower(query \o <<" ">> \o answer)
        chart_keywords == <<<<"c","h","a","r","t">>, <<"g","r","a","p","h">>, <<"p","l","o","t">>, <<"v","i","s","u","a","l","i","z","a","t","i","o","n">>,
                            <<"b","a","r">>, <<"l","i","n","e">>, <<"p","i","e">>, <<"s","t","a","t","i","s","t","i","c","s">>>>
        table_keywords == <<<<"t","a","b","l","e">>, <<"l","i","s","t">>, <<"d","i","s","p","l","a","y">>, <<"s","h","o","w">>, <<"d","a","t","a">>,
                            <<"u","s","e","r","s">>, <<"r","e","c","o","r","d","s">>, <<"r","o","w","s">>, <<"c","o","l","u","m","n","s">>>>
        info_keywords == <<<<"e","x","p","l","a","i","n">>, <<"i","n","f","o","r","m","a","t","i","o","n">>, <<"a","b","o","u","t">>, <<"d","e","s","c","r","i","p","t","i","o","n">>,
                           <<"w","h","a","t"," ","i","s">>, <<"t","e","l","l"," ","m","e">>>>
    IN  IF AnyIn(chart_keywords, combined_text) THEN <<"d","a","t","a","_","v","i","s","u","a","l","i","z","a","t","i","o","n">>
        ELSE IF AnyIn(<<<<"w","e","a","t","h","e","r">>, <<"t","e","m","p","e","r","a","t","u","r","e">>, <<"h","u","m","i","d","i","t","y">>, <<"w","i","n","d">>>>, combined_text)
        THEN <<"d","a","t","a","_","d","i","s","p","l","a","y">>
        ELSE IF AnyIn(table_keywords, combined_text) THEN <<"d","a","t","a","_","d","i","s","p","l","a","y">>
        ELSE IF AnyIn(info_keywords, combined_text) THEN <<"c","o","n","t","e","n","t">>
        ELSE None

\* The rules without the informational rule.
RouterAgent_rule_based_routing_no_info_rule(query, answer) ==
    LET combined_text == Lower(query \o <<" ">> \o answer)
        chart_keywords == <<<<"c","h","a","r","t">>, <<"g","r","a","p","h">>, <<"p","l","o","t">>, <<"v","i","s","u","a","l","i","z","a","t","i","o","n">>,
                            <<"b","a","r">>, <<"l","i","n","e">>, <<"p","i","e">>, <<"s","t","a","t","i","s","t","i","c","s">>>>
        table_keywords == <<<<"t","a","b","l","e">>, <<"l","i","s","t">>, <<"d","i","s","p","l","a","y">>, <<"s","h","o","w">>, <<"d","a","t","a">>,
                            <<"u","s","e","r","s">>, <<"r","e","c","o","r","d","s">>, <<"r","o","w","s">>, <<"c","o","l","u","m","n","s">>>>
        info_keywords == <<<<"e","x","p","l","a","i","n">>, <<"i","n","f","o","r","m","a","t","i","o","n">>, <<"a","b","o","u","t">>, <<"d","e","s","c","r","i","p","t","i","o","n">>,
                           <<"w","h","a","t"," ","i","s">>, <<"t","e","l","l"," ","m","e">>>>
    IN  IF AnyIn(<<<<"w","e","a","t","h","e","r">>, <<"t","e","m","p","e","r","a","t","u","r","e">>, <<"h","u","m","i","d","i","t","y">>, <<"w","i","n","d">>>>, combined_text)
        THEN <<"d","a","t","a","_","d","i","s","p","l","a","y">>
        ELSE IF AnyIn(chart_keywords, combined_text) THEN <<"d","a","t","a","_","v","i","s","u","a","l","i","z","a","t","i","o","n">>
        ELSE IF AnyIn(table_keywords, combined_text) THEN <<"d","a","t","a","_","d","i","s","p","l","a","y">>
        ELSE None

\* The rules with the table rule tried before the chart rule.
RouterAgent_rule_based_routing_table_first(query, answer) ==
    LET combined_text == Lower(query \o <<" ">> \o answer)
        chart_keywords == <<<<"c","h","a","r","t">>, <<"g","r","a","p","h">>, <<"p","l","o","t">>, <<"v","i","s","u","a","l","i","z","a","t","i","o","n">>,
                            <<"b","a","r">>, <<"l","i","n","e">>, <<"p","i","e">>, <<"s","t","a","t","i","s","t","i","c","s">>>>
        table_keywords == <<<<"t","a","b","l","e">>, <<"l","i","s","t">>, <<"d","i","s","p","l","a","y">>, <<"s","h","o","w">>, <<"d","a","t","a">>,
                            <<"u","s","e","r","s">>, <<"r","e","c","o","r","d","s">>, <<"r","o","w","s">>, <<"c","o","l","u","m","n","s">>>>
        info_keywords == <<<<"e","x","p","l","a","i","n">>, <<"i","n","f","o","r","m","a","t","i","o","n">>, <<"a","b","o","u","t">>, <<"d","e","s","c","r","i","p","t","i","o","n">>,
                           <<"w","h","a","t"," ","i","s">>, <<"t","e","l","l"," ","m","e">>>>
    IN  IF AnyIn(<<<<"w","e","a","t","h","e","r">>, <<"t","e","m","p","e","r","a","t","u","r","e">>, <<"h","u","m","i","d","i","t","y">>, <<"w","i","n","d">>>>, combined_text)
        THEN <<"d","a","t","a","_","d","i","s","p","l","a","y">>
        ELSE IF AnyIn(table_keywords, combined_text) THEN <<"d","a","t","a","_","d","i","s","p","l","a","y">>
        ELSE IF AnyIn(chart_keywords, combined_text) THEN <<"d","a","t","a","_","v","i","s","u","a","l","i","z","a","t","i","o","n">>
        ELSE IF AnyIn(info_keywords, combined_text) THEN <<"c","o","n","t","e","n","t">>
        ELSE None

\* RouterAgent._rule_based_routing; None when no rule matches
RouterAgent_rule_based_routing(query, answer) ==
    LET combined_text == Lower(query \o <<" ">> \o answer)
        chart_keywords == <<<<"c","h","a","r","t">>, <<"g","r","a","p","h">>, <<"p","l","o","t">>, <<"v","i","s","u","a","l","i","z","a","t","i","o","n">>,
                            <<"b","a","r">>, <<"l","i","n","e">>, <<"p","i","e">>, <<"s","t","a","t","i","s","t","i","c","s">>>>
        table_keywords == <<<<"t","a","b","l","e">>, <<"l","i","s","t">>, <<"d","i","s","p","l","a","y">>, <<"s","h","o","w">>, <<"d","a","t","a">>,
                            <<"u","s","e","r","s">>, <<"r","e","c","o","r","d","s">>, <<"r","o","w","s">>, <<"c","o","l","u","m","n","s">>>>
        info_keywords == <<<<"e","x","p","l","a","i","n">>, <<"i","n","f","o","r","m","a","t","i","o","n">>, <<"a","b","o","u","t">>, <<"d","e","s","c","r","i","p","t","i","o","n">>,
                           <<"w","h","a","t"," ","i","s">>, <<"t","e","l","l"," ","m","e">>>>
    IN  IF AnyIn(<<<<"w","e","a","t","h","e","r">>, <<"t","e","m","p","e","r","a","t","u","r","e">>, <<"h","u","m","i","d","i","t","y">>, <<"w","i","n","d">>>>, combined_text)
        THEN <<"d","a","t","a","_","d","i","s","p","l","a","y">>
        ELSE IF AnyIn(chart_keywords, combined_text) THEN <<"d","a","t","a","_","v","i","s","u","a","l","i","z","a","t","i","o","n">>
        ELSE IF AnyIn(table_keywords, combined_text) THEN <<"d","a","t","a","_","d","i","s","p","l","a","y">>
        ELSE IF AnyIn(info_keywords, combined_text) THEN <<"c","o","n","t","e","n","t">>
        ELSE None

\* The match taking the last category that matches in part.
RouterAgent_match_category_last_partial(content) ==
    LET category == Lower(Strip(content))
        partial == {i \in 1..Len(categories) :
                       \/ Contains(category, categories[i])
                       \/ Contains(categories[i], category)}
    IN  IF \E i \in 1..Len(categories) : categories[i] = category
        THEN category
        ELSE IF partial # {}
        THEN categories[CHOOSE i \in partial : \A j \in partial : i >= j]
        ELSE None

\* _llm_based_routing, lines 111-121: the category found in the model's
\* response, None when the loop ends without a return
RouterAgent_match_category(content) ==
    LET category == Lower(Strip(content))
        partial == {i \in 1..Len(categories) :
                       \/ Contains(category, categories[i])
                       \/ Contains(categories[i], category)}
    IN  IF \E i \in 1..Len(categories) : categories[i] = category
        THEN category
        ELSE IF partial # {}
        THEN categories[CHOOSE i \in partial : \A j \in partial : i <= j]
        ELSE None

\* _llm_based_routing, lines 81-91: the categories the prompt lists, those
\* of the table that occur in a schema, or all when no schema names one
RouterAgent_schema_categories(available_schemas) ==
    {Get(available_schemas.l[i], <<"c","a","t","e","g","o","r","y">>) :
        i \in {j \in 1..Len(available_schemas.l) :
                  HasKey(available_schemas.l[j], <<"c","a","t","e","g","o","r","y">>)}}
RouterAgent_categories_info(available_schemas) ==
    LET schema_categories == RouterAgent_schema_categories(available_schemas)
    IN  {categories[i] : i \in {j \in 1..Len(categories) :
                                  \/ JStr(categories[j]) \in schema_categories
                                  \/ schema_categories = {}}}

\* A fallback to another category.
RouterAgent_ultimate_fallback_general == <<"g","e","n","e","r","a","l">>
\* What _llm_based_routing returns when its try block found no category or
\* raised: line 127
RouterAgent_ultimate_fallback == <<"c","o","n","t","e","n","t">>

\* RouterAgent._llm_based_routing, given the model's reply; it raises when
\* available_schemas is None (line 83, outside the try)
RouterAgent_llm_based_routing(reply, available_schemas) ==
    IF available_schemas.t # "list" THEN Raises
    ELSE IF reply.raised \/ ~IsStr(reply.message.content.chars)
    THEN Returns(RouterAgent_ultimate_fallback)
    ELSE LET found == RouterAgent_match_category(reply.message.content.chars)
         IN  Returns(IF found # None THEN found ELSE RouterAgent_ultimate_fallback)

\* route_query's try/except around an outcome: lines 36-48
RouterAgent_route_query(outcome) ==
    IF outcome.raised THEN Returns(<<"c","o","n","t","e","n","t">>) ELSE outcome

RouterQueries ==
    {<<>>, <<"h","e","l","l","o">>, <<"W","e","a","t","h","e","r"," ","c","h","a","r","t">>, <<"s","h","o","w"," ","a"," ","c","h","a","r","t">>, <<"W","I","N","D","O","W","S"," ","l","i","s","t">>,
     <<"t","e","l","l"," ","m","e"," ","a","b","o","u","t"," ","i","t">>, <<"B","a","r"," ","g","r","a","p","h"," ","o","f"," ","h","u","m","i","d","i","t","y">>, <<"w","h","a","t"," ","i","s"," ","a"," ","t","a","b","l","e">>,
     <<"e","x","p","l","a","i","n"," ","t","h","e"," ","b","a","r"," ","c","h","a","r","t"," ","d","a","t","a">>}
RouterAnswers ==
    {<<>>, <<"o","k">>, <<"I","t"," ","i","s"," ","s","u","n","n","y">>, <<"A"," ","t","a","b","l","e"," ","o","f"," ","u","s","e","r","s">>, <<"T","e","m","p","e","r","a","t","u","r","e",":"," ","2","1","C">>}
RouterSchemas ==
    {JNull, JList(<<>>), JList(<<JObj({<<<<"n","a","m","e">>, JStr(<<"I","n","f","o">>)>>,
                                       <<<<"c","a","t","e","g","o","r","y">>, JStr(<<"c","o","n","t","e","n","t">>)>>})>>)}
RouterContents ==
    {<<>>, <<" ","\n">>, <<"c","o","n","t","e","n","t">>, <<" ","D","a","t","a","_","V","i","s","u","a","l","i","z","a","t","i","o","n","\n">>, <<"d","a","t","a">>,
     <<"t","h","e"," ","g","e","n","e","r","a","l"," ","o","n","e">>, <<"u","n","k","n","o","w","n">>, ListContent}

NoReply == [raised |-> FALSE, message |-> AIMessage(<<>>, <<>>)]
NoRouterArgs == [query |-> <<>>, answer |-> <<>>, available_schemas |-> JNull]

\* route_query ends with outcome
RouteQueryEnds(outcome) ==
    /\ rPc' = IF RouterAgent_route_query(outcome).raised THEN "raised" ELSE "returned"
    /\ rResult' = RouterAgent_route_query(outcome).value

\* RouterAgent.route_query up to the model call of _llm_based_routing
route_query(query, answer, available_schemas) ==
    /\ rPc = "idle"
    /\ rArgs' = [query |-> query, answer |-> answer,
                 available_schemas |-> available_schemas]
    /\ LET category == RouterAgent_rule_based_routing(query, answer)
       IN  IF category # None /\ category # <<>>
           THEN RouteQueryEnds(Returns(category))
           ELSE IF RouterAgent_llm_based_routing(NoReply, available_schemas).raised
           THEN RouteQueryEnds(Raises)
           ELSE rPc' = "llm" /\ rResult' = None
    /\ UNCHANGED <<rReply, rCalls, pipelineVars, dynamicVars, serviceVars, toolVars, agentVars>>

\* The model answers _llm_based_routing, and route_query ends.
RouterAgent_llm_reply ==
    /\ rPc = "llm"
    /\ \E reply \in ModelReplies(RouterContents, {}) :
          /\ rReply' = reply
          /\ RouteQueryEnds(RouterAgent_llm_based_routing(reply, rArgs.available_schemas))
    /\ rCalls' = rCalls + 1
    /\ UNCHANGED <<rArgs, pipelineVars, dynamicVars, serviceVars, toolVars, agentVars>>

\* The caller takes the result; the router waits for the next call.
RouterAgent_next_call ==
    /\ rPc \in {"returned", "raised"}
    /\ rPc' = "idle" /\ rArgs' = NoRouterArgs /\ rResult' = None
    /\ rReply' = NoReply /\ rCalls' = 0
    /\ UNCHANGED <<pipelineVars, dynamicVars, serviceVars, toolVars, agentVars>>

(***************************************************************************)
(* The service (services/agent-service/app/main.py): POST /api/query and    *)
(* the websocket /ws/query.  The graph its handlers call is the             *)
(* environment: process_query returns an AgentResponse or raises.           *)
(***************************************************************************)
\* The most texts one websocket connection receives.
MaxTexts == 3
\* Websockets that connect.
MaxConnections == 2

\* str(e) of the exceptions the graph may raise; an exception constructed
\* without a message has the empty str
ExceptionTexts == {<<>>, <<"m","o","d","e","l"," ","u","n","a","v","a","i","l","a","b","l","e">>}
\* str(e) of request_data.get on a value that is no mapping
NoGetAttribute == <<"'","l","i","s","t","'"," ","o","b","j","e","c","t"," ","h","a","s"," ","n","o"," ","a","t","t","r","i","b","u","t","e"," ","'","g","e","t","'">>

\* What agent_graph.process_query does: it returns an AgentResponse (the
\* component and the reasoning are Optional), or raises.
GraphReturns(answer, component, reasoning) ==
    [raised |-> FALSE, text |-> <<>>,
     answer |-> answer, component |-> component, reasoning |-> reasoning]
GraphRaises(e) ==
    [raised |-> TRUE, text |-> e,
     answer |-> None, component |-> JNull, reasoning |-> None]
GraphOutcomes ==
    {GraphReturns(<<"I","t"," ","i","s"," ","s","u","n","n","y",".">>, JNull, None),
     GraphReturns(<<"I","t"," ","i","s"," ","s","u","n","n","y",".">>,
                  JObj({<<<<"t","y","p","e">>, JStr(<<"i","n","f","o","_","c","a","r","d">>)>>,
                        <<<<"t","i","t","l","e">>, JStr(<<"I","n","f","o","r","m","a","t","i","o","n">>)>>,
                        <<<<"c","o","n","t","e","n","t">>, JStr(<<"I","t"," ","i","s"," ","s","u","n","n","y",".">>)>>,
                        <<<<"v","a","r","i","a","n","t">>, JStr(<<"d","e","f","a","u","l","t">>)>>}),
                  <<"S","e","l","e","c","t","e","d"," ","i","n","f","o","_","c","a","r","d">>)}
    \cup {GraphRaises(e) : e \in ExceptionTexts}
NoGraphOutcome == GraphRaises(None)

\* The answer of a failed request: lines 92 and 173
ServiceApology == <<"I"," ","a","p","o","l","o","g","i","z","e",","," ","b","u","t"," ","I"," ","e","n","c","o","u","n","t","e","r","e","d"," ","a","n"," ","e","r","r","o","r"," ","p","r","o","c","e","s","s","i","n","g"," ","y","o","u","r"," ","r","e","q","u","e","s","t",".">>

\* The response of a processed request: lines 82-88 and 155-161
SuccessResponse(result) ==
    [answer |-> result.answer,
     component |-> IF result.component # JNull THEN result.component ELSE EmptyDict,
     reasoning |-> IF result.reasoning \in {None, <<>>} THEN <<>> ELSE result.reasoning,
     success |-> TRUE,
     error |-> <<>>]
\* The response of a request whose processing raised e: lines 91-97, 172-178
\* str(e)
ExceptionStr(e) == e
ErrorResponse(e) ==
    [answer |-> ServiceApology, component |-> EmptyDict, reasoning |-> <<>>,
     success |-> FALSE, error |-> ExceptionStr(e)]
NoQueryResponse ==
    [answer |-> None, component |-> JNull, reasoning |-> None,
     success |-> FALSE, error |-> None]

\* The try/except of both handlers around the graph's call
HandleOutcome(outcome) ==
    IF outcome.raised THEN ErrorResponse(outcome.text) ELSE SuccessResponse(outcome)

\* lifespan: the graph is constructed, or its construction fails
lifespan ==
    /\ ~started
    /\ started' = TRUE
    /\ agent_graph' \in BOOLEAN
    /\ UNCHANGED <<hPc, hOutcome, hResponse, wPc, wReceived, wRequest, wSent,
                   wSocket, active_connections>>
    /\ UNCHANGED <<pipelineVars, dynamicVars, routerVars, toolVars, agentVars>>

\* The handler without the test of agent_graph.
api_process_query_unchecked ==
    /\ started /\ hPc = "idle"
    /\ hPc' = "processing"
    /\ UNCHANGED <<started, agent_graph, hOutcome, hResponse,
                   wPc, wReceived, wRequest, wSent, wSocket, active_connections>>
    /\ UNCHANGED <<pipelineVars, dynamicVars, routerVars, toolVars, agentVars>>

\* POST /api/query up to the graph's call: lines 69-75
api_process_query ==
    /\ started /\ hPc = "idle"
    /\ hPc' = IF ~agent_graph THEN "http_500" ELSE "processing"
    /\ UNCHANGED <<started, agent_graph, hOutcome, hResponse,
                   wPc, wReceived, wRequest, wSent, wSocket, active_connections>>
    /\ UNCHANGED <<pipelineVars, dynamicVars, routerVars, toolVars, agentVars>>

\* POST /api/query from the graph's call on: lines 76-97
api_process_query_ends ==
    /\ hPc = "processing"
    /\ \E outcome \in GraphOutcomes :
          /\ hOutcome' = outcome
          /\ hResponse' = HandleOutcome(outcome)
    /\ hPc' = "responded"
    /\ UNCHANGED <<started, agent_graph, wPc, wReceived, wRequest, wSent,
                   wSocket, active_connections>>
    /\ UNCHANGED <<pipelineVars, dynamicVars, routerVars, toolVars, agentVars>>

\* The next request to POST /api/query.
api_next_request ==
    /\ hPc \in {"responded", "http_500"}
    /\ hPc' = "idle" /\ hOutcome' = NoGraphOutcome /\ hResponse' = NoQueryResponse
    /\ UNCHANGED <<started, agent_graph, wPc, wReceived, wRequest, wSent,
                   wSocket, active_connections>>
    /\ UNCHANGED <<pipelineVars, dynamicVars, routerVars, toolVars, agentVars>>

\* The texts a client sends: a request, a JSON text that is no mapping, and
\* a text that is no JSON
WsTexts ==
    {JsonDumps(JObj({<<<<"q","u","e","r","y">>, JStr(<<"w","e","a","t","h","e","r","?">>)>>})),
     JsonDumps(JList(<<>>)),
     Raw(<<"h","e","l","l","o">>)}

\* A message sent on the websocket, answering the n-th received text.
WsMessage(type, n, message, data) ==
    [type |-> type, n |-> n, message |-> message, data |-> data]
StatusMessage(n) == WsMessage("status", n, <<"P","r","o","c","e","s","s","i","n","g"," ","q","u","e","r","y",".",".",".">>, NoQueryResponse)
ErrorMessage(n) == WsMessage("error", n, <<"A","g","e","n","t"," ","g","r","a","p","h"," ","n","o","t"," ","i","n","i","t","i","a","l","i","z","e","d">>, NoQueryResponse)
ResultMessage(n, data) == WsMessage("result", n, <<>>, data)

\* ConnectionManager.disconnect: list.remove takes the first occurrence out
ConnectionManager_disconnect(connections, websocket) ==
    LET at == {i \in 1..Len(connections) : connections[i] = websocket}
        first == CHOOSE i \in at : \A j \in at : i <= j
    IN  IF at = {} THEN connections
        ELSE SubSeq(connections, 1, first - 1)
             \o SubSeq(connections, first + 1, Len(connections))

\* websocket_endpoint: manager.connect, lines 104-106 and 124; wSocket
\* numbers the websockets
websocket_connect ==
    /\ started /\ wPc \in {"none", "disconnected", "crashed"}
    /\ wSocket < MaxConnections
    /\ wSocket' = wSocket + 1
    /\ active_connections' = Append(active_connections, wSocket')
    /\ wPc' = "receiving" /\ wReceived' = 0 /\ wSent' = <<>> /\ wRequest' = JNull
    /\ UNCHANGED <<started, agent_graph, hPc, hOutcome, hResponse>>
    /\ UNCHANGED <<pipelineVars, dynamicVars, routerVars, toolVars, agentVars>>

\* websocket_endpoint: a text is received, lines 127-144.  json.loads is
\* outside the inner try, and the outer try catches WebSocketDisconnect only.
websocket_receive_text ==
    /\ wPc = "receiving" /\ wReceived < MaxTexts
    /\ wReceived' = wReceived + 1
    /\ \E data \in WsTexts :
          IF JsonDecodeError(data)
          THEN wPc' = "crashed" /\ UNCHANGED <<wRequest, wSent>>
          ELSE IF ~agent_graph
          THEN /\ wSent' = Append(wSent, ErrorMessage(wReceived'))
               /\ UNCHANGED <<wPc, wRequest>>
          ELSE /\ wSent' = Append(wSent, StatusMessage(wReceived'))
               /\ wRequest' = JsonLoads(data)
               /\ wPc' = "processing"
    /\ UNCHANGED <<started, agent_graph, hPc, hOutcome, hResponse,
                   wSocket, active_connections>>
    /\ UNCHANGED <<pipelineVars, dynamicVars, routerVars, toolVars, agentVars>>

\* websocket_endpoint: receive_text raises WebSocketDisconnect, lines 186-187
websocket_disconnect ==
    /\ wPc = "receiving"
    /\ wPc' = "disconnected"
    /\ active_connections' = ConnectionManager_disconnect(active_connections, wSocket)
    /\ UNCHANGED <<started, agent_graph, hPc, hOutcome, hResponse,
                   wReceived, wRequest, wSent, wSocket>>
    /\ UNCHANGED <<pipelineVars, dynamicVars, routerVars, toolVars, agentVars>>

\* The handler sending no result when the processing raised.
websocket_process_unanswered_error ==
    /\ wPc = "processing"
    /\ \E outcome \in GraphOutcomes, gone \in BOOLEAN :
          IF gone
          THEN /\ wPc' \in {"disconnected", "crashed"}
               /\ active_connections' =
                     IF wPc' = "disconnected"
                     THEN ConnectionManager_disconnect(active_connections, wSocket)
                     ELSE active_connections
               /\ UNCHANGED wSent
          ELSE /\ wSent' = IF wRequest.t # "obj" \/ outcome.raised THEN wSent
                           ELSE Append(wSent, ResultMessage(wReceived,
                                                            HandleOutcome(outcome)))
               /\ wPc' = "receiving"
               /\ UNCHANGED active_connections
    /\ wRequest' = JNull
    /\ UNCHANGED <<started, agent_graph, hPc, hOutcome, hResponse, wReceived, wSocket>>
    /\ UNCHANGED <<pipelineVars, dynamicVars, routerVars, toolVars, agentVars>>

\* websocket_endpoint: the accepted request is processed and its result is
\* sent, lines 146-184.  When the client has gone meanwhile the send raises:
\* WebSocketDisconnect or another error, as the server library has it.
websocket_process ==
    /\ wPc = "processing"
    /\ \E outcome \in GraphOutcomes, gone \in BOOLEAN :
          IF gone
          THEN /\ wPc' \in {"disconnected", "crashed"}
               /\ active_connections' =
                     IF wPc' = "disconnected"
                     THEN ConnectionManager_disconnect(active_connections, wSocket)
                     ELSE active_connections
               /\ UNCHANGED wSent
          ELSE /\ wSent' = Append(wSent, ResultMessage(wReceived,
                                  IF wRequest.t # "obj"
                                  THEN ErrorResponse(NoGetAttribute)
                                  ELSE HandleOutcome(outcome)))
               /\ wPc' = "receiving"
               /\ UNCHANGED active_connections
    /\ wRequest' = JNull
    /\ UNCHANGED <<started, agent_graph, hPc, hOutcome, hResponse, wReceived, wSocket>>
    /\ UNCHANGED <<pipelineVars, dynamicVars, routerVars, toolVars, agentVars>>

(***************************************************************************)
(* A tool called on its own: WeatherCardTool._parse_number, a component     *)
(* tool of UIAgent, or the tool_function of a generated tool.               *)
(***************************************************************************)
\* value of _parse_number: None, numbers, and strs with and without a number
ParseNumberValues ==
    {JNull, JNum(<<"2","1">>), JNum(<<"3","6",".","7">>), JNum(<<"-","0",".","5">>),
     JStr(<<"2","0","C">>), JStr(<<"6","5","%">>), JStr(<<"1","2"," ","k","m","/","h">>), JStr(<<"-","5","C">>), JStr(<<"3","6",".","7","%">>),
     JStr(<<"-","0",".","5">>), JStr(<<"0","0","7">>), JStr(<<"1",".","5","0"," ","m">>), JStr(<<"T","e","m","p",":"," ","2","1",".","5","C">>),
     JStr(<<"5",".">>), JStr(<<"9","9"," ","b","o","t","t","l","e","s",","," ","3"," ","w","a","l","l","s">>), JStr(<<"3","-","5","C">>), JStr(<<".","5","C">>), JStr(<<"-"," ","4">>), JStr(<<"m","i","l","d">>),
     JStr(<<>>)}
\* kwargs of a generated tool's tool_function
ToolFunctionKwargs ==
    {JObj({}),
     JObj({<<<<"t","i","t","l","e">>, JStr(<<"N","o","t","e">>)>>}),
     JObj({<<<<"c","o","n","t","e","n","t">>, JStr(<<"h","e","l","l","o">>)>>}),
     JObj({<<<<"t","i","t","l","e">>, JStr(<<"N","o","t","e">>)>>, <<<<"c","o","n","t","e","n","t">>, JStr(<<"h","e","l","l","o">>)>>}),
     JObj({<<<<"i","c","o","n">>, JStr(<<"i","n","f","o">>)>>}),
     JObj({<<<<"t","i","t","l","e">>, JStr(<<"N","o","t","e">>)>>, <<<<"c","o","n","t","e","n","t">>, JStr(<<"h","e","l","l","o">>)>>,
           <<<<"t","y","p","e">>, JStr(<<"w","e","a","t","h","e","r","_","c","a","r","d">>)>>})}

\* An argument that a call leaves out.
Absent == [t |-> "absent", s |-> <<>>, l |-> <<>>, o |-> {}]
\* temperature, humidity and wind_speed of a create_weather_card call: left
\* out (the optional ones), None, strs with and without a number, numbers,
\* floats that are no finite number, a bool, a list
WeatherValues ==
    {Absent, JNull, JStr(<<"2","1","C">>), JStr(<<"m","i","l","d">>), JStr(<<>>), JNum(<<"3","6",".","7">>),
     JNum(<<"I","n","f","i","n","i","t","y">>), JNum(<<"N","a","N">>), JBool(TRUE), JList(<<JNum(<<"3">>)>>)}
WeatherCardCalls ==
    {ToolCall("create_weather_card",
              JObj({p \in {<<<<"l","o","c","a","t","i","o","n">>, JStr(<<"R","o","m","e">>)>>,
                           <<<<"t","e","m","p","e","r","a","t","u","r","e">>, temperature>>,
                           <<<<"c","o","n","d","i","t","i","o","n">>, JStr(<<"S","u","n","n","y">>)>>,
                           <<<<"h","u","m","i","d","i","t","y">>, humidity>>,
                           <<<<"w","i","n","d","_","s","p","e","e","d">>, wind_speed>>} : p[2] # Absent})) :
        temperature \in WeatherValues \ {Absent},
        humidity \in WeatherValues, wind_speed \in WeatherValues}

\* chart_type and data of a create_chart_card call
ChartTypeValues == ChartTypes \cup {<<"d","o","n","u","t">>, <<"B","a","r">>}
ChartPoint(label, value) == JObj({<<<<"l","a","b","e","l">>, JStr(label)>>, <<<<"v","a","l","u","e">>, JNum(value)>>})
ChartDataValues ==
    {<<>>, <<ChartPoint(<<"J","a","n">>, <<"3">>)>>,
     <<ChartPoint(<<"J","a","n">>, <<"3">>), ChartPoint(<<"F","e","b">>, <<"4",".","5">>)>>}
ChartCardCalls ==
    {ToolCall("create_chart_card",
              JObj({<<<<"t","i","t","l","e">>, JStr(<<"S","a","l","e","s">>)>>, <<<<"c","h","a","r","t","_","t","y","p","e">>, JStr(chart_type)>>,
                    <<<<"d","a","t","a">>, JList(data)>>})) :
        chart_type \in ChartTypeValues, data \in ChartDataValues}

\* content and variant of a create_info_card call
InfoCardCalls ==
    {ToolCall("create_info_card",
              JObj({p \in {<<<<"t","i","t","l","e">>, JStr(<<"N","o","t","e">>)>>, <<<<"c","o","n","t","e","n","t">>, JStr(content)>>,
                           <<<<"v","a","r","i","a","n","t">>, variant>>} : p[2] # Absent})) :
        content \in {<<>>, <<"s","a","y"," ","\"","h","i","\"","\n">>, <<"a","\\","b"," ","{","1",","," ","2","}">>},
        variant \in {Absent, JNull, JStr(<<"s","u","c","c","e","s","s">>), JStr(<<"h","u","g","e">>)}}

ToolInput(tool, args, is_int, schema) ==
    [tool |-> tool, args |-> args, is_int |-> is_int, schema |-> schema]
NoToolInput == ToolInput("none", JNull, FALSE, JNull)
\* What a call gave: the number (or None) of _parse_number, or the outcome
\* of a tool, and the component its text was parsed back into; for a list of
\* schemas, the tools create_tools_from_schemas made of it and what
\* get_tool_names gave for it.
ToolOutput(number, run, component) ==
    [number |-> number, run |-> run, component |-> component,
     tools |-> <<>>, names |-> NamesRaised]
NoToolOutput == ToolOutput(JNull, ToolRaises, ValidationError)

\* _parse_number is called
parse_number_call(value, is_int) ==
    /\ tPc = "idle"
    /\ tPc' = "called"
    /\ tInput' = ToolInput("_parse_number", value, is_int, JNull)
    /\ UNCHANGED tOutput
    /\ UNCHANGED <<pipelineVars, dynamicVars, routerVars, serviceVars, agentVars>>

\* a component tool of UIAgent is called
ui_tool_call(call) ==
    /\ tPc = "idle"
    /\ tPc' = "called"
    /\ tInput' = ToolInput(call.name, call.args, FALSE, JNull)
    /\ UNCHANGED tOutput
    /\ UNCHANGED <<pipelineVars, dynamicVars, routerVars, serviceVars, agentVars>>

\* the tool_function of the tool generated from schema is called
tool_function_call(schema, kwargs) ==
    /\ tPc = "idle"
    /\ tPc' = "called"
    /\ tInput' = ToolInput("tool_function", kwargs, FALSE, schema)
    /\ UNCHANGED tOutput
    /\ UNCHANGED <<pipelineVars, dynamicVars, routerVars, serviceVars, agentVars>>

\* create_tools_from_schemas and get_tool_names are called with schemas
tool_names_call(schemas) ==
    /\ tPc = "idle"
    /\ tPc' = "called"
    /\ tInput' = ToolInput("get_tool_names", JNull, FALSE, JList(schemas))
    /\ UNCHANGED tOutput
    /\ UNCHANGED <<pipelineVars, dynamicVars, routerVars, serviceVars, agentVars>>

\* the call returns
tool_returns ==
    /\ tPc = "called"
    /\ tPc' = "returned"
    /\ tOutput' =
          CASE tInput.tool = "_parse_number" ->
                  ToolOutput(WeatherCardTool_parse_number(tInput.args, tInput.is_int),
                             ToolRaises, ValidationError)
            [] tInput.tool = "tool_function" ->
                  ToolOutput(JNull,
                             [ok |-> TRUE, schema |-> JNull,
                              text |-> tool_function(tInput.schema, tInput.args)],
                             ValidationError)
            [] tInput.tool = "get_tool_names" ->
                  [ToolOutput(JNull, ToolRaises, ValidationError)
                      EXCEPT !.tools = create_tools_from_schemas(tInput.schema.l),
                             !.names = get_tool_names(tInput.schema.l)]
            [] OTHER ->
                  ToolOutput(JNull, UIToolRun(tInput.tool, tInput.args), ValidationError)
    /\ UNCHANGED tInput
    /\ UNCHANGED <<pipelineVars, dynamicVars, routerVars, serviceVars, agentVars>>

\* The text a component tool returned is parsed back: json.loads, then the
\* tool's component schema.
component_parsed ==
    /\ tPc = "returned"
    /\ tInput.tool \in UIToolNames /\ tOutput.run.ok
    /\ tPc' = "parsed"
    /\ tOutput' =
          [tOutput EXCEPT !.component =
              IF JsonDecodeError(tOutput.run.text) THEN ValidationError
              ELSE ToolSchema(tInput.tool, JsonLoads(tOutput.run.text))]
    /\ UNCHANGED tInput
    /\ UNCHANGED <<pipelineVars, dynamicVars, routerVars, serviceVars, agentVars>>

\* The caller takes the result.
tool_next_call ==
    /\ tPc \in {"returned", "parsed"}
    /\ tPc' = "idle" /\ tInput' = NoToolInput /\ tOutput' = NoToolOutput
    /\ UNCHANGED <<pipelineVars, dynamicVars, routerVars, serviceVars, agentVars>>

(***************************************************************************)
(* Specifications.                                                          *)
(***************************************************************************)
InitPipeline ==
    /\ gNode = "idle"
    /\ state = [query |-> <<>>, context |-> <<>>, answer |-> <<>>,
                component |-> JNull, reasoning |-> <<>>, messages |-> <<>>,
                error |-> None]
    /\ response = NoResponse
    /\ aPc = "idle" /\ aMessages = <<>> /\ aSteps = 0
    /\ uPc = "idle" /\ uMessages = <<>> /\ uSteps = 0 /\ uInvocations = 0 /\ uFallbackInvocations = 0
    /\ uResult = [component |-> EmptyDict, reasoning |-> <<>>]

InitDynamic ==
    /\ dSchemas = <<>> /\ dTools = <<>> /\ dExecutor = FALSE /\ dPc = "idle"
    /\ dArgs = NoArgs /\ dIterations = 0 /\ dObservations = <<>>
    /\ dOutput = NoOutcome /\ dResult = NoResult

InitRouter ==
    /\ rPc = "idle" /\ rArgs = NoRouterArgs /\ rReply = NoReply
    /\ rResult = None /\ rCalls = 0

InitService ==
    /\ started = FALSE /\ agent_graph = FALSE
    /\ hPc = "idle" /\ hOutcome = NoGraphOutcome /\ hResponse = NoQueryResponse
    /\ wPc = "none" /\ wReceived = 0 /\ wRequest = JNull /\ wSent = <<>>
    /\ wSocket = 0 /\ active_connections = <<>>

InitTools ==
    /\ tPc = "idle" /\ tInput = NoToolInput /\ tOutput = NoToolOutput

\* RouterAgent.__init__ and UIAgent.__init__
InitAgents ==
    /\ categories = RouterCategories
    /\ uTools = UIToolNames /\ uGraph = UIAgentGraph

Init ==
    InitPipeline /\ InitDynamic /\ InitRouter /\ InitService /\ InitTools /\ InitAgents

\* One request through the pipeline of packages/api.
NextPipeline ==
    \/ \E query \in Queries, context \in Contexts : process_query(query, context)
    \/ AnswerAgent_call_model
    \/ AnswerAgent_tool_node
    \/ AnswerAgent_graph_end
    \/ AnswerAgent_direct
    \/ AnswerAgent_fallback
    \/ MultiAgentGraph_ui_node
    \/ UIAgent_call_model
    \/ UIAgent_tool_node
    \/ UIAgent_finalize_response
    \/ UIAgent_select_component_returns
    \/ MultiAgentGraph_finalize_node
    \/ process_query_returns

SpecPipeline == Init /\ [][NextPipeline]_vars

\* DynamicUIAgent: initialization and requests, one at a time.
NextDynamic ==
    \/ \E schemas \in SchemaLists : initialize_tools(schemas)
    \/ \E query \in DynamicQueries, answer \in Answers :
          DynamicUIAgent_select_component(query, answer)
    \/ AgentExecutor_iteration
    \/ AgentExecutor_stopped
    \/ DynamicUIAgent_next_call

SpecDynamic == Init /\ [][NextDynamic]_vars

\* RouterAgent: routing requests, one at a time.
NextRouter ==
    \/ \E query \in RouterQueries, answer \in RouterAnswers,
          available_schemas \in RouterSchemas :
          route_query(query, answer, available_schemas)
    \/ RouterAgent_llm_reply
    \/ RouterAgent_next_call

SpecRouter == Init /\ [][NextRouter]_vars


\* The service: its startup, the requests of POST /api/query and the texts
\* of websocket connections.
NextService ==
    \/ lifespan
    \/ api_process_query
    \/ api_process_query_ends
    \/ api_next_request
    \/ websocket_connect
    \/ websocket_receive_text
    \/ websocket_disconnect
    \/ websocket_process

SpecService == Init /\ [][NextService]_vars

\* The agents of one process, one call at a time: the router, the dynamic
\* agent with its initialization, and the pipeline with one request after
\* the other.
NextAgents ==
    \/ dPc = "idle" /\ gNode = "idle" /\ NextRouter
    \/ rPc = "idle" /\ gNode = "idle" /\ NextDynamic
    \/ rPc = "idle" /\ dPc = "idle" /\ (NextPipeline \/ process_query_next)

SpecAgents == Init /\ [][NextAgents]_vars

\* The tools, called one at a time.
NextTools ==
    \/ \E value \in ParseNumberValues, is_int \in BOOLEAN :
          parse_number_call(value, is_int)
    \/ \E call \in {c \in UIToolCalls : c.name \in UIToolNames} \cup WeatherCardCalls
                       \cup ChartCardCalls \cup InfoCardCalls :
          ui_tool_call(call)
    \/ \E schema \in {InfoCardSchemaDef, BareSchemaDef}, kwargs \in ToolFunctionKwargs :
          tool_function_call(schema, kwargs)
    \/ \E schemas \in SchemaLists : tool_names_call(schemas)
    \/ tool_returns
    \/ component_parsed
    \/ tool_next_call

SpecTools == Init /\ [][NextTools]_vars
(***************************************************************************)
(* Properties.                                                              *)
(***************************************************************************)
\* The fields of an info card component.
IsInfoCard(component, title, content) ==
    /\ component.t = "obj"
    /\ GetOr(component, <<"t","y","p","e">>, JNull) = JStr(<<"i","n","f","o","_","c","a","r","d">>)
    /\ GetOr(component, <<"t","i","t","l","e">>, JNull) = JStr(title)
    /\ GetOr(component, <<"c","o","n","t","e","n","t">>, JNull) = JStr(content)
    /\ GetOr(component, <<"v","a","r","i","a","n","t">>, JNull) = JStr(<<"d","e","f","a","u","l","t">>)

\* C1: process_query never raises, and the AgentResponse it returns has
\* answer, component and reasoning populated, whichever stage failed.
C1_ProcessQueryAlwaysReturnsPopulated ==
    /\ gNode # "raised"
    /\ gNode = "returned" =>
          /\ response.answer # None
          /\ response.component # JNull
          /\ response.reasoning # None

\* C2: the executor of DynamicUIAgent runs at most max_iterations (3)
\* iterations, and a select_component that ran into the limit returns the
\* info card fallback: type info_card, content the answer, variant default.
C2_IterationCapThenFallback ==
    /\ dIterations <= max_iterations
    /\ (dPc = "returned" /\ dIterations = max_iterations) =>
          /\ IsInfoCard(dResult.component, <<"R","e","s","p","o","n","s","e">>, dArgs.answer)
          /\ dOutput = ExecutorResult(Raw(AgentStoppedText))
C2_Witness ==
    /\ dPc = "returned" /\ dIterations = max_iterations
    /\ Len(dObservations) = max_iterations

\* The weather keywords of the first routing rule.
HasWeatherKeyword(text) ==
    \/ Contains(text, <<"w","e","a","t","h","e","r">>) \/ Contains(text, <<"t","e","m","p","e","r","a","t","u","r","e">>)
    \/ Contains(text, <<"h","u","m","i","d","i","t","y">>) \/ Contains(text, <<"w","i","n","d">>)

\* C3: a query and answer whose lowercased concatenation holds a weather
\* keyword is routed to data_display by the rules, whatever else it holds.
C3_WeatherKeywordWins ==
    \A query \in RouterQueries, answer \in RouterAnswers :
        LET text == Lower(query \o <<" ">> \o answer)
        IN  /\ HasWeatherKeyword(text) =>
                  RouterAgent_rule_based_routing(query, answer) = <<"d","a","t","a","_","d","i","s","p","l","a","y">>
            /\ (rPc = "returned" /\ rArgs.query = query /\ rArgs.answer = answer
                /\ HasWeatherKeyword(text)) =>
                  (rResult = <<"d","a","t","a","_","d","i","s","p","l","a","y">> /\ rCalls = 0)
C3_Witness ==
    /\ rPc = "returned"
    /\ Contains(Lower(rArgs.query \o <<" ">> \o rArgs.answer), <<"w","e","a","t","h","e","r">>)
    /\ Contains(Lower(rArgs.query \o <<" ">> \o rArgs.answer), <<"c","h","a","r","t">>)
    /\ rResult = <<"d","a","t","a","_","d","i","s","p","l","a","y">>

\* C4: route_query never raises, and when the model call of the model-based
\* router raises it returns 'content'.
C4_RouteQueryNeverRaises ==
    /\ rPc # "raised"
    /\ (rPc = "returned" /\ rReply.raised) => rResult = <<"c","o","n","t","e","n","t">>
C4_Witness ==
    rPc = "returned" /\ rReply.raised /\ rCalls = 1

\* C5: select_component of UIAgent never propagates an exception.
C5_SelectComponentNeverRaises ==
    uPc # "raised"

\* select_component took one of its fallback branches.
NoComponentObtained ==
    \/ dOutput.kind \in {"raised", "no_output"}
    \/ dOutput.kind = "output" /\ JsonDecodeError(dOutput.text)

\* C6: whenever select_component of DynamicUIAgent obtains no component
\* (the executor raised, its result has no output, or the output is no JSON)
\* it returns the info card titled 'Response' with the answer as content,
\* variant default, and a reasoning that is not empty.
C6_FallbackCardWithReasoning ==
    (dPc = "returned" /\ NoComponentObtained) =>
        /\ IsInfoCard(dResult.component, <<"R","e","s","p","o","n","s","e">>, dArgs.answer)
        /\ dResult.reasoning.t = "str"
        /\ dResult.reasoning.s # <<>>

\* C7: every result of select_component of DynamicUIAgent carries a
\* component that is a non-empty mapping with a type tag.
C7_ComponentNeverEmpty ==
    dPc = "returned" =>
        /\ dResult.component.t = "obj"
        /\ dResult.component # EmptyDict
        /\ HasKey(dResult.component, <<"t","y","p","e">>)

\* C8: when the model of UIAgent's selection requested no tool, or no tool
\* result of the conversation parses as JSON, select_component returns the
\* info card titled 'Information' with the answer as content and variant
\* default.
C8_MalformedOutputGivesInformationCard ==
    (uPc \in {"END", "returned"} /\ ParsedToolMessages(uMessages) = {}) =>
        /\ IsInfoCard(uResult.component, <<"I","n","f","o","r","m","a","t","i","o","n">>, state.answer)
        /\ uPc = "returned" => state.component = uResult.component
C8_Witness ==
    /\ uPc = "returned"
    /\ \E i \in 1..Len(uMessages) : uMessages[i].type = "tool"
    /\ ParsedToolMessages(uMessages) = {}
    /\ state.answer # <<>>

C10_AnswerLoopAlternates ==
    [][/\ (aPc # "tools" /\ aPc' = "tools") =>
             /\ aPc = "agent"
             /\ Last(aMessages').type = "ai"
             /\ Last(aMessages').tool_calls # <<>>
       /\ (aPc = "tools" /\ aPc' # "tools") => aPc' \in {"agent", "fallback"}
       /\ (aPc = "agent" /\ aPc' \notin {"agent", "fallback"}) =>
             /\ aPc' \in {"tools", "END"}
             /\ Last(aMessages').type = "ai"
             /\ aPc' = "END" <=> Last(aMessages').tool_calls = <<>>
       /\ (aPc # "END" /\ aPc' = "END") => aPc = "agent"
       /\ (aPc = "END" /\ Last(aMessages).content.chars # <<>>
           /\ IsStr(Last(aMessages).content.chars)) =>
             /\ aPc' = "done" /\ gNode' = "ui_agent"
             /\ state'.answer = Strip(Last(aMessages).content.chars)
             /\ state'.error = None
      ]_vars
C10_Witness ==
    /\ aPc = "END"
    /\ \E i \in 1..Len(aMessages) : aMessages[i].type = "tool"
    /\ Last(aMessages).content.chars = <<" ","S","u","n","n","y",","," ","2","1","C","\n">>

\* C11: once generate_answer has entered its except clause, it returns the
\* stripped text of the further direct completion: _answer_node records no
\* error for the request.
C11_FallbackAlwaysReturns ==
    [][aPc = "fallback" => (aPc' = "done" /\ state'.error = None)]_vars

\* The moves of the pipeline from one node to the next.
PipelineOrder ==
    {<<"idle", "answer_agent">>, <<"answer_agent", "ui_agent">>,
     <<"ui_agent", "finalize">>, <<"ui_agent", "raised">>,
     <<"finalize", "END">>, <<"END", "returned">>, <<"END", "raised">>}

\* C12: within a request the answer stage and then the selection stage run,
\* once each: the pipeline only moves forward, selection starts only when
\* the answer stage is done, the answer select_component is given is the one
\* the answer stage stored, and neither stage runs again afterwards.
C12_StagesInSequence ==
    [][/\ gNode' # gNode => <<gNode, gNode'>> \in PipelineOrder
       /\ uPc' # "idle" => (aPc' = "done" /\ gNode' # "answer_agent")
       /\ (uPc = "idle" /\ uPc' # "idle") =>
             /\ gNode = "ui_agent" /\ uPc' = "agent"
             /\ Last(state.messages) = AIMessage(state.answer, <<>>)
             /\ uMessages' = <<HumanMessage(<<"U","s","e","r"," ","Q","u","e","r","y",":"," ">>
                                            \o state.query
                                            \o <<"\n","G","e","n","e","r","a","t","e","d"," ",
                                                 "A","n","s","w","e","r",":"," ">>
                                            \o state.answer)>>
       /\ gNode \in {"ui_agent", "finalize", "END"} =>
             (state'.answer = state.answer /\ aPc' = "done")
       /\ uPc \in {"returned", "raised"} => uPc' = uPc
      ]_vars
C12_Witness ==
    /\ gNode = "END" /\ uPc = "returned" /\ aPc = "done"
    /\ state.answer # <<>> /\ state.error = None

\* C13: when the processing of a POST /api/query request raises, the
\* response has success false, an error that is not empty, the empty
\* object as component and the apology as answer.
C13_UnexpectedErrorResponse ==
    (hPc = "responded" /\ hOutcome.raised) =>
        /\ hResponse.success = FALSE
        /\ hResponse.error # <<>>
        /\ hResponse.component = EmptyDict
        /\ hResponse.answer = ServiceApology

\* C14: on a websocket connection every result message directly follows
\* the status message of the same request, every status message is followed
\* by exactly one result of its request once the handler waits again, the
\* status is sent before the request is processed, and the result is sent
\* both when the processing returned and when it raised.
C14_StatusThenOneResult ==
    /\ \A i \in 1..Len(wSent) :
          /\ wSent[i].type = "result" =>
                (i > 1 /\ wSent[i - 1] = StatusMessage(wSent[i].n))
          /\ wSent[i].type = "status" =>
                IF i = Len(wSent) THEN wPc # "receiving"
                ELSE wSent[i + 1].type = "result" /\ wSent[i + 1].n = wSent[i].n
          /\ \A j \in 1..Len(wSent) : (i < j) => wSent[i].n < wSent[j].n + 1
          /\ \A j \in 1..Len(wSent) :
                (i # j /\ wSent[i].type = "result" /\ wSent[j].type = "result")
                    => wSent[i].n # wSent[j].n
    /\ wPc = "processing" => (wSent # <<>> /\ Last(wSent) = StatusMessage(wReceived))
C14_Witness ==
    /\ wPc = "receiving" /\ Len(wSent) = 4
    /\ wSent[2].type = "result" /\ wSent[2].data.success
    /\ wSent[4].type = "result" /\ ~wSent[4].data.success

\* C15: the receive loop of the websocket handler ends only when the
\* client disconnects: after any received text the handler waits for the
\* next one.
C15_LoopEndsOnlyOnDisconnect ==
    [][(wPc = "receiving" /\ wPc' \notin {"receiving", "processing"})
          => wPc' = "disconnected"]_vars

\* The category the model-based router is to give for a response.
ExpectedCategory(content) ==
    LET r == Lower(Strip(content))
        Matches(name) == Contains(name, r) \/ Contains(r, name)
    IN  IF r \in {<<"d","a","t","a","_","d","i","s","p","l","a","y">>, <<"d","a","t","a","_","v","i","s","u","a","l","i","z","a","t","i","o","n">>, <<"c","o","n","t","e","n","t">>, <<"g","e","n","e","r","a","l">>}
        THEN r
        ELSE IF Matches(<<"d","a","t","a","_","d","i","s","p","l","a","y">>) THEN <<"d","a","t","a","_","d","i","s","p","l","a","y">>
        ELSE IF Matches(<<"d","a","t","a","_","v","i","s","u","a","l","i","z","a","t","i","o","n">>) THEN <<"d","a","t","a","_","v","i","s","u","a","l","i","z","a","t","i","o","n">>
        ELSE IF Matches(<<"c","o","n","t","e","n","t">>) THEN <<"c","o","n","t","e","n","t">>
        ELSE IF Matches(<<"g","e","n","e","r","a","l">>) THEN <<"g","e","n","e","r","a","l">>
        ELSE <<"c","o","n","t","e","n","t">>

\* C16: the model-based router returns the stripped, lowercased response
\* when it is a category name, else the first category (data_display,
\* data_visualization, content, general) whose name contains the response
\* or is contained in it, else 'content'.
C16_ModelRouterResolution ==
    /\ ExpectedCategory(<<" ","D","a","t","a","_","V","i","s","u","a","l","i","z","a","t","i","o","n","\n">>) = <<"d","a","t","a","_","v","i","s","u","a","l","i","z","a","t","i","o","n">>
    /\ ExpectedCategory(<<"d","a","t","a">>) = <<"d","a","t","a","_","d","i","s","p","l","a","y">>
    /\ ExpectedCategory(<<"t","h","e"," ","g","e","n","e","r","a","l"," ","o","n","e">>) = <<"g","e","n","e","r","a","l">>
    /\ ExpectedCategory(<<"u","n","k","n","o","w","n">>) = <<"c","o","n","t","e","n","t">>
    /\ (rPc = "returned" /\ rCalls = 1 /\ ~rReply.raised
        /\ IsStr(rReply.message.content.chars)) =>
           rResult = ExpectedCategory(rReply.message.content.chars)
C16_Witness ==
    /\ rPc = "returned" /\ rCalls = 1 /\ ~rReply.raised
    /\ rReply.message.content.chars = <<"d","a","t","a">>
    /\ rResult = <<"d","a","t","a","_","d","i","s","p","l","a","y">>

\* The keywords of the four rules.
RuleKeywords ==
    {<<"w","e","a","t","h","e","r">>, <<"t","e","m","p","e","r","a","t","u","r","e">>, <<"h","u","m","i","d","i","t","y">>, <<"w","i","n","d">>,
     <<"c","h","a","r","t">>, <<"g","r","a","p","h">>, <<"p","l","o","t">>, <<"v","i","s","u","a","l","i","z","a","t","i","o","n">>, <<"b","a","r">>, <<"l","i","n","e">>, <<"p","i","e">>,
     <<"s","t","a","t","i","s","t","i","c","s">>,
     <<"t","a","b","l","e">>, <<"l","i","s","t">>, <<"d","i","s","p","l","a","y">>, <<"s","h","o","w">>, <<"d","a","t","a">>, <<"u","s","e","r","s">>, <<"r","e","c","o","r","d","s">>,
     <<"r","o","w","s">>, <<"c","o","l","u","m","n","s">>,
     <<"e","x","p","l","a","i","n">>, <<"i","n","f","o","r","m","a","t","i","o","n">>, <<"a","b","o","u","t">>, <<"d","e","s","c","r","i","p","t","i","o","n">>, <<"w","h","a","t"," ","i","s">>, <<"t","e","l","l"," ","m","e">>}
HasRuleKeyword(text) == \E k \in RuleKeywords : Contains(text, k)

\* C17: _rule_based_routing returns None exactly for the texts that hold no
\* keyword of the four lists, and route_query calls the model only for
\* those: when a rule matches, no model call is made.
C17_ModelOnlyWhenNoRule ==
    /\ \A query \in RouterQueries, answer \in RouterAnswers :
          (RouterAgent_rule_based_routing(query, answer) = None)
              <=> ~HasRuleKeyword(Lower(query \o <<" ">> \o answer))
    /\ (rPc = "llm" \/ rCalls > 0) =>
          ~HasRuleKeyword(Lower(rArgs.query \o <<" ">> \o rArgs.answer))
    /\ (rPc = "returned"
        /\ HasRuleKeyword(Lower(rArgs.query \o <<" ">> \o rArgs.answer))) => rCalls = 0
C17_Witness ==
    /\ rPc = "returned" /\ rCalls = 1 /\ rResult = <<"g","e","n","e","r","a","l">>
    /\ ~HasRuleKeyword(Lower(rArgs.query \o <<" ">> \o rArgs.answer))

\* The keywords of the chart, table and informational rules.
HasChartKeyword(text) ==
    \E k \in {<<"c","h","a","r","t">>, <<"g","r","a","p","h">>, <<"p","l","o","t">>, <<"v","i","s","u","a","l","i","z","a","t","i","o","n">>, <<"b","a","r">>, <<"l","i","n","e">>,
              <<"p","i","e">>, <<"s","t","a","t","i","s","t","i","c","s">>} : Contains(text, k)
HasTableKeyword(text) ==
    \E k \in {<<"t","a","b","l","e">>, <<"l","i","s","t">>, <<"d","i","s","p","l","a","y">>, <<"s","h","o","w">>, <<"d","a","t","a">>, <<"u","s","e","r","s">>,
              <<"r","e","c","o","r","d","s">>, <<"r","o","w","s">>, <<"c","o","l","u","m","n","s">>} : Contains(text, k)
HasInfoKeyword(text) ==
    \E k \in {<<"e","x","p","l","a","i","n">>, <<"i","n","f","o","r","m","a","t","i","o","n">>, <<"a","b","o","u","t">>, <<"d","e","s","c","r","i","p","t","i","o","n">>, <<"w","h","a","t"," ","i","s">>,
              <<"t","e","l","l"," ","m","e">>} : Contains(text, k)

\* C18: the rules are tried in order: without a weather keyword a chart
\* keyword gives data_visualization whatever table or informational keywords
\* are present; without weather and chart keywords a table keyword gives
\* data_display; an informational keyword gives content only when no
\* keyword of the other three lists is present.
C18_OrderedDecisionList ==
    /\ \A query \in RouterQueries, answer \in RouterAnswers :
          LET text == Lower(query \o <<" ">> \o answer)
              category == RouterAgent_rule_based_routing(query, answer)
          IN  /\ (~HasWeatherKeyword(text) /\ HasChartKeyword(text))
                     => category = <<"d","a","t","a","_","v","i","s","u","a","l","i","z","a","t","i","o","n">>
              /\ (~HasWeatherKeyword(text) /\ ~HasChartKeyword(text)
                  /\ HasTableKeyword(text)) => category = <<"d","a","t","a","_","d","i","s","p","l","a","y">>
              /\ (HasInfoKeyword(text) /\ category = <<"c","o","n","t","e","n","t">>)
                     => (~HasWeatherKeyword(text) /\ ~HasChartKeyword(text)
                         /\ ~HasTableKeyword(text))
              /\ (HasInfoKeyword(text) /\ ~HasWeatherKeyword(text)
                  /\ ~HasChartKeyword(text) /\ ~HasTableKeyword(text))
                     => category = <<"c","o","n","t","e","n","t">>
    /\ (rPc = "returned" /\ rCalls = 0 /\ rArgs.available_schemas # JNull) =>
          rResult = RouterAgent_rule_based_routing(rArgs.query, rArgs.answer)
C18_Witness ==
    /\ rPc = "returned" /\ rResult = <<"d","a","t","a","_","v","i","s","u","a","l","i","z","a","t","i","o","n">>
    /\ HasChartKeyword(Lower(rArgs.query \o <<" ">> \o rArgs.answer))
    /\ HasTableKeyword(Lower(rArgs.query \o <<" ">> \o rArgs.answer))
    /\ HasInfoKeyword(Lower(rArgs.query \o <<" ">> \o rArgs.answer))

\* The error text tool_function gives for the missing parameter param.
MissingParameter(param) ==
    JsonDumps(JObj({<<<<"e","r","r","o","r">>, JStr(<<"M","i","s","s","i","n","g"," ","r","e","q","u","i","r","e","d"," ","p","a","r","a","m","e","t","e","r",":"," ">> \o param)>>}))

\* C19: the tool_function of the info card tool, whose required parameters
\* are title and content in this order, called without one of them returns
\* the error naming the first one missing and no component.
C19_MissingParameterNamed ==
    (tPc = "returned" /\ tInput.tool = "tool_function"
     /\ tInput.schema = InfoCardSchemaDef) =>
        LET kwargs == tInput.args
            out == tOutput.run.text
        IN  /\ tOutput.run.ok /\ ~JsonDecodeError(out)
            /\ ~HasKey(kwargs, <<"t","i","t","l","e">>) => out = MissingParameter(<<"t","i","t","l","e">>)
            /\ (HasKey(kwargs, <<"t","i","t","l","e">>) /\ ~HasKey(kwargs, <<"c","o","n","t","e","n","t">>))
                  => out = MissingParameter(<<"c","o","n","t","e","n","t">>)
            /\ HasKey(JsonLoads(out), <<"c","o","m","p","o","n","e","n","t">>)
                  <=> (HasKey(kwargs, <<"t","i","t","l","e">>) /\ HasKey(kwargs, <<"c","o","n","t","e","n","t">>))
C19_Witness ==
    /\ tPc = "returned" /\ tInput.tool = "tool_function"
    /\ tInput.schema = InfoCardSchemaDef /\ tInput.args = EmptyDict
    /\ tOutput.run.text = MissingParameter(<<"t","i","t","l","e">>)

\* The number _parse_number is to give for a value: as a float and as an
\* integer; None for a value with no number.
NoNumber == [float |-> None, int |-> None]
Number(float, int) == [float |-> float, int |-> int]
ExpectedNumber(value) ==
    CASE value = JStr(<<"2","0","C">>) -> Number(<<"2","0",".","0">>, <<"2","0">>)
      [] value = JStr(<<"6","5","%">>) -> Number(<<"6","5",".","0">>, <<"6","5">>)
      [] value = JStr(<<"1","2"," ","k","m","/","h">>) -> Number(<<"1","2",".","0">>, <<"1","2">>)
      [] value = JStr(<<"-","5","C">>) -> Number(<<"-","5",".","0">>, <<"-","5">>)
      [] value = JStr(<<"3","6",".","7","%">>) -> Number(<<"3","6",".","7">>, <<"3","6">>)
      [] value = JStr(<<"-","0",".","5">>) -> Number(<<"-","0",".","5">>, <<"0">>)
      [] value = JStr(<<"0","0","7">>) -> Number(<<"7",".","0">>, <<"7">>)
      [] value = JStr(<<"1",".","5","0"," ","m">>) -> Number(<<"1",".","5">>, <<"1">>)
      [] value = JStr(<<"T","e","m","p",":"," ","2","1",".","5","C">>) -> Number(<<"2","1",".","5">>, <<"2","1">>)
      [] value = JStr(<<"5",".">>) -> Number(<<"5",".","0">>, <<"5">>)
      [] value = JStr(<<"9","9"," ","b","o","t","t","l","e","s",","," ","3"," ","w","a","l","l","s">>) -> Number(<<"9","9",".","0">>, <<"9","9">>)
      [] value = JStr(<<"3","-","5","C">>) -> Number(<<"3",".","0">>, <<"3">>)
      [] value = JStr(<<".","5","C">>) -> Number(<<"5",".","0">>, <<"5">>)
      [] value = JStr(<<"-"," ","4">>) -> Number(<<"4",".","0">>, <<"4">>)
      [] value = JNum(<<"2","1">>) -> Number(<<"2","1",".","0">>, <<"2","1">>)
      [] value = JNum(<<"3","6",".","7">>) -> Number(<<"3","6",".","7">>, <<"3","6">>)
      [] value = JNum(<<"-","0",".","5">>) -> Number(<<"-","0",".","5">>, <<"0">>)
      [] OTHER -> NoNumber
ExpectedParse(value, is_int) ==
    LET n == ExpectedNumber(value)
    IN  IF n = NoNumber THEN JNull ELSE JNum(IF is_int THEN n.int ELSE n.float)

\* The numbers that have the value of an int or float.
SameValue(value) ==
    CASE value = JNum(<<"2","1">>) -> {JNum(<<"2","1">>), JNum(<<"2","1",".","0">>)}
      [] value = JNum(<<"3","6",".","7">>) -> {JNum(<<"3","6",".","7">>)}
      [] value = JNum(<<"-","0",".","5">>) -> {JNum(<<"-","0",".","5">>)}

\* C20 as claimed: a str gives its first decimal number, as a float or
\* truncated to an integer, and an int or float is returned unchanged in
\* value.
C20_NumericInputsUnchanged ==
    (tPc = "returned" /\ tInput.tool = "_parse_number") =>
        IF tInput.args.t = "num"
        THEN tOutput.number \in SameValue(tInput.args)
        ELSE tOutput.number = ExpectedParse(tInput.args, tInput.is_int)
\* C20 as amended: a str gives the first match of an optional minus sign,
\* digits and an optional fraction, as a float or truncated towards zero to
\* an integer when an integer is asked for; an int or a float is converted
\* the same way, so a float is truncated when an integer is asked for; None
\* and a str without a digit give None.
C20_ParseNumber ==
    (tPc = "returned" /\ tInput.tool = "_parse_number") =>
        tOutput.number = ExpectedParse(tInput.args, tInput.is_int)
C20_Witness ==
    /\ tPc = "returned" /\ tInput.tool = "_parse_number"
    /\ tInput.args = JStr(<<"3","6",".","7","%">>) /\ tInput.is_int
    /\ tOutput.number = JNum(<<"3","6">>)


\* A str none of whose characters is a digit, or None: a value with no
\* number to extract.
NoDigit(value) ==
    \/ value.t = "null"
    \/ value.t = "str" /\ \A i \in 1..Len(value.s) : ~IsDigit(value.s[i])
\* A weather card call has returned or raised.
WeatherCardCalled ==
    tPc = "returned" /\ tInput.tool = "create_weather_card"

\* C21: a malformed or unparseable numeric argument never makes the weather
\* card fail: a temperature with no number gives 20.0, a humidity or
\* wind_speed with no number gives None, and _run raises for no value of
\* the three arguments.
C21_WeatherCardNeverFails ==
    WeatherCardCalled =>
        /\ tOutput.run.ok
        /\ LET card == JsonLoads(tOutput.run.text)
           IN  /\ NoDigit(Get(tInput.args, <<"t","e","m","p","e","r","a","t","u","r","e">>))
                     => Get(card, <<"t","e","m","p","e","r","a","t","u","r","e">>) = JNum(<<"2","0",".","0">>)
               /\ NoDigit(GetOr(tInput.args, <<"h","u","m","i","d","i","t","y">>, JNull))
                     => Get(card, <<"h","u","m","i","d","i","t","y">>) = JNull
               /\ NoDigit(GetOr(tInput.args, <<"w","i","n","d","_","s","p","e","e","d">>, JNull))
                     => Get(card, <<"w","i","n","d","_","s","p","e","e","d">>) = JNull

\* C22: every chart_card the chart tool produces has a chart_type of bar,
\* line, pie or area and at least one data point; a call with another
\* chart_type or with an empty data list produces no chart_card.
C22_ChartCardTypeAndData ==
    (tPc = "returned" /\ tInput.tool = "create_chart_card") =>
        (tOutput.run.ok <=>
            /\ Get(tInput.args, <<"c","h","a","r","t","_","t","y","p","e">>).s \in ChartTypes
            /\ Get(tInput.args, <<"d","a","t","a">>).l # <<>>)

\* A value holds a NaN, which is equal to no float, itself included.
RECURSIVE HasNaN(_)
HasNaN(v) ==
    CASE v.t = "num" -> v.s = <<"N","a","N">>
      [] v.t = "list" -> \E i \in 1..Len(v.l) : HasNaN(v.l[i])
      [] v.t = "obj" -> \E p \in v.o : HasNaN(p[2])
      [] OTHER -> FALSE
\* a == b of two components, field for field
EqualComponents(a, b) == a = b /\ ~HasNaN(a)

\* C23: the JSON text a component tool returns, parsed back into the tool's
\* component schema, gives a component equal field for field to the one the
\* tool built, the type tag included.
C23_RoundTrip ==
    tPc = "parsed" =>
        /\ tOutput.component.ok
        /\ EqualComponents(tOutput.component.component, tOutput.run.schema)

\* The lowercased query holds one of the eight weather indicators.
HasWeatherIndicator(query) ==
    \E w \in {<<"w","e","a","t","h","e","r">>, <<"t","e","m","p","e","r","a","t","u","r","e">>, <<"f","o","r","e","c","a","s","t">>, <<"c","l","i","m","a","t","e">>,
              <<"r","a","i","n">>, <<"s","n","o","w">>, <<"s","u","n","n","y">>, <<"c","l","o","u","d","y">>} : Contains(Lower(query), w)
\* generate_answer is in its tool-calling loop.
InToolLoop(pc) == pc \in {"agent", "tools", "END"}

\* C24 as claimed: the tool-calling loop is entered only for a query with a
\* weather indicator; for every other query there is a single direct
\* completion, after which generate_answer returns; and a loop that ends
\* with an empty final message is followed by a direct completion.
C24_SingleDirectCompletion ==
    [][/\ InToolLoop(aPc') => HasWeatherIndicator(state'.query)
       /\ (gNode = "idle" /\ gNode' = "answer_agent"
             /\ ~HasWeatherIndicator(state'.query)) => aPc' = "direct"
       /\ (aPc = "direct" /\ aPc' # "direct" /\ ~HasWeatherIndicator(state.query))
             => aPc' = "done"
       /\ (aPc = "END" /\ Last(aMessages).content.chars = <<>>) => aPc' = "direct"]_vars
\* C24 as amended: the tool-calling loop is entered only for a query with a
\* weather indicator; every other query goes straight to a direct completion
\* without tools; a direct completion that raises, or whose content is no
\* str, is followed by one more direct completion, after which
\* generate_answer ends; and a loop that ends with an empty final message is
\* followed by a direct completion, whose stripped text is the answer.
C24_DirectCompletion ==
    [][/\ InToolLoop(aPc') => HasWeatherIndicator(state'.query)
       /\ (gNode = "idle" /\ gNode' = "answer_agent"
             /\ ~HasWeatherIndicator(state'.query)) => aPc' = "direct"
       /\ (aPc = "direct" /\ aPc' # "direct") => aPc' \in {"done", "fallback"}
       /\ (aPc = "direct" /\ aPc' = "done") =>
             \E c \in AnswerContents : IsStr(c) /\ state'.answer = Strip(c)
       /\ (aPc = "fallback" /\ aPc' # "fallback") => aPc' = "done"
       /\ (aPc = "END" /\ Last(aMessages).content.chars = <<>>) => aPc' = "direct"]_vars
C24_Witness ==
    /\ aPc = "direct" /\ HasWeatherIndicator(state.query)
    /\ state.query = <<"R","a","i","n","y"," ","i","n"," ","R","o","m","e","?">>

\* The GraphState process_query makes of its arguments.
NewGraphState(query, context) ==
    [query |-> query, context |-> context, answer |-> <<>>, component |-> JNull,
     reasoning |-> <<>>, messages |-> <<>>, error |-> None]
\* A step of select_component of DynamicUIAgent.
SelectComponentStep == dPc = "executor" \/ dPc' \in {"executor", "returned"}

\* C25: processing a request changes nothing the process keeps: no step
\* changes the category table of the router or the tools and the graph of
\* UIAgent, no step of select_component of DynamicUIAgent changes its tools
\* or its executor, and process_query starts from a GraphState made of its
\* arguments alone.
C25_LifetimeStateReadOnly ==
    [][/\ UNCHANGED <<categories, uTools, uGraph>>
       /\ SelectComponentStep => UNCHANGED <<dTools, dExecutor>>
       /\ (gNode = "idle" /\ gNode' = "answer_agent") =>
             state' = NewGraphState(state'.query, state'.context)]_vars
C25_Witness ==
    /\ gNode = "returned" /\ response.component # JNull
    /\ dExecutor /\ dTools # <<>> /\ dPc = "idle"
    /\ categories = RouterCategories /\ uTools = UIToolNames /\ uGraph = UIAgentGraph

\* The tool messages of UIAgent's conversation and those json.loads accepts.
ToolResults == {i \in 1..Len(uMessages) : uMessages[i].type = "tool"}
ParsedResults == {i \in ToolResults : ~JsonDecodeError(uMessages[i].content)}

\* C26: a result of select_component of UIAgent carries one component, a
\* mapping: when a tool result of the conversation parses as JSON it is the
\* one parsed from the newest such result, every tool result after it being
\* one that does not parse, and no earlier result of the same turn is
\* returned in its place; when none parses it is the fallback info card.
C26_NewestParsedToolResult ==
    uPc \in {"END", "returned"} =>
        /\ uResult.component.t = "obj"
        /\ ParsedResults # {} =>
              \E i \in ParsedResults :
                 /\ uResult.component = JsonLoads(uMessages[i].content)
                 /\ \A j \in ToolResults : j > i => JsonDecodeError(uMessages[j].content)
        /\ ParsedResults = {} =>
              uResult.component = JsonLoads(UIAgent_fallback_component(state.answer).text)
C26_Witness ==
    /\ uPc = "returned"
    /\ \E i, j \in ParsedResults :
          /\ i < j
          /\ JsonLoads(uMessages[i].content) # JsonLoads(uMessages[j].content)
          /\ uResult.component = JsonLoads(uMessages[j].content)
C26_WitnessSkipped ==
    /\ uPc = "returned"
    /\ \E i \in ParsedResults : \E j \in ToolResults \ ParsedResults :
          i < j /\ uResult.component = JsonLoads(uMessages[i].content)

\* How far a node of UIAgent's graph is along the graph.
NodeRank(node) ==
    CASE node = "idle" -> 0
      [] node = "agent" -> 1
      [] node = "tools" -> 2
      [] node = "finalize" -> 3
      [] node = "END" -> 4
      [] OTHER -> 5

\* C27: every step of UIAgent's graph moves forward along agent, tools,
\* finalize, END (or raises), so each node runs at most once and the graph
\* ends within three steps whatever the model replies; once the agent node
\* has run the model with tools has been invoked exactly once; the reasoning
\* call is made only by finalize and only when no tool result parsed as
\* JSON; select_component makes at most two model invocations.
C27_BoundedSelection ==
    [][/\ (uPc \in {"agent", "tools", "finalize"} /\ pipelineVars' # pipelineVars) =>
             /\ NodeRank(uPc') > NodeRank(uPc)
             /\ uSteps' <= 3
       /\ uPc' \in {"tools", "finalize", "END", "returned"} => uInvocations' = 1
       /\ uPc' = "raised" => uInvocations' <= 1
       /\ uFallbackInvocations' # uFallbackInvocations =>
             /\ uPc = "finalize" \/ uFallbackInvocations' = 0
             /\ uPc = "finalize" => ParsedResults = {} /\ uFallbackInvocations' = 1
       /\ uInvocations' + uFallbackInvocations' <= 2
      ]_vars
C27_Witness ==
    /\ uPc = "returned"
    /\ ToolResults # {} /\ ParsedResults = {}
    /\ uInvocations = 1 /\ uFallbackInvocations = 1

\* The model of _llm_based_routing answered with a str that is empty once
\* stripped.
EmptyRoutingResponse ==
    /\ rPc = "returned" /\ rCalls = 1 /\ ~rReply.raised
    /\ IsStr(rReply.message.content.chars)
    /\ Strip(rReply.message.content.chars) = <<>>

\* C28: when the model's routing response is empty or only whitespace,
\* _llm_based_routing returns the default 'content'.
C28_EmptyResponseGivesContent ==
    EmptyRoutingResponse => rResult = <<"c","o","n","t","e","n","t">>

\* C29: the category _llm_based_routing returns after the model answered
\* is one of the categories its prompt listed.
C29_ReturnedCategoryWasPresented ==
    (rPc = "returned" /\ rCalls = 1) =>
        rResult \in RouterAgent_categories_info(rArgs.available_schemas)

\* The websockets whose handler is running.
RunningHandlers == IF wPc \in {"receiving", "processing"} THEN {wSocket} ELSE {}

\* C30: active_connections holds exactly the websockets whose handler is
\* running, each once.
C30_ActiveConnectionsAreRunning ==
    /\ {active_connections[i] : i \in 1..Len(active_connections)} = RunningHandlers
    /\ Len(active_connections) = Cardinality(RunningHandlers)

\* C31: while agent_graph is not set no request is processed: POST
\* /api/query ends with the HTTP error 500 and no QueryResponse, and the
\* websocket handler answers a received request with one error message,
\* numbered as the request, sends no status and no result, and goes on
\* receiving.
C31_UninitializedGraph ==
    [][(started /\ ~agent_graph) =>
          /\ hPc' # "processing" /\ wPc' # "processing"
          /\ (hPc = "idle" /\ hPc' # "idle") =>
                hPc' = "http_500" /\ hResponse' = NoQueryResponse
          /\ (wPc = "receiving" /\ wReceived' = wReceived + 1 /\ wPc' # "crashed") =>
                /\ wSent' = Append(wSent, ErrorMessage(wReceived'))
                /\ wPc' = "receiving"
          /\ \A i \in 1..Len(wSent') : wSent'[i].type = "error"
      ]_vars
C31_Witness ==
    /\ started /\ ~agent_graph
    /\ hPc = "http_500"
    /\ wPc = "receiving" /\ wReceived = 2
    /\ wSent = <<ErrorMessage(1), ErrorMessage(2)>>

\* The tool_function of a generated tool returned a component.
ToolFunctionComponent ==
    /\ tPc = "returned" /\ tInput.tool = "tool_function"
    /\ ~JsonDecodeError(tOutput.run.text)
    /\ HasKey(JsonLoads(tOutput.run.text), <<"c","o","m","p","o","n","e","n","t">>)

\* C32: the type tag of a component a generated tool returns is the name
\* of its schema, lowercased and with "_" for each space, whatever the
\* arguments of the call.
C32_TypeTagIsSchemaName ==
    ToolFunctionComponent =>
        Get(Get(JsonLoads(tOutput.run.text), <<"c","o","m","p","o","n","e","n","t">>), <<"t","y","p","e">>)
            = JStr(ReplaceSpaces(Lower(Get(tInput.schema, <<"n","a","m","e">>).s)))

\* A schema whose tool creation does not raise: schema['name'] is there.
HasName(schema) == HasKey(schema, <<"n","a","m","e">>)

\* C33: once initialize_tools(schemas) has run the agent has an executor
\* and at least one tool; when no schema of the list gave a tool (the list
\* is empty, or the creation raised for each) the tools are the one
\* fallback tool create_info_card, and otherwise they are the tools of the
\* schemas of the latest call and no others.
C33_ToolsAfterInitialize ==
    /\ ~dExecutor => dTools = <<>>
    /\ dExecutor =>
          LET made == SelectSeq(dSchemas, HasName)
          IN  /\ Len(dTools) >= 1
              /\ made = <<>> =>
                    /\ Len(dTools) = 1
                    /\ dTools[1].name = <<"c","r","e","a","t","e","_","i","n","f","o","_","c","a","r","d">>
              /\ made # <<>> =>
                    dTools = [i \in 1..Len(made) |->
                                 [name |-> ToolNameOf(made[i]), schema |-> made[i]]]
C33_Witness ==
    /\ dExecutor /\ dSchemas = <<NamelessSchemaDef>>
    /\ dTools = <<FallbackTool>>
    /\ dPc = "returned"

\* C34: select_component of an agent that initialize_tools never ran on
\* returns the info card titled 'Response' with the answer as content and
\* variant default, with the reasoning 'Agent not initialized'; the executor
\* is not entered, so no model call and no tool call is made.
C34_NotInitializedFallback ==
    ~dExecutor =>
        /\ dPc \in {"idle", "returned"}
        /\ dIterations = 0 /\ dObservations = <<>> /\ dOutput = NoOutcome
        /\ dPc = "returned" =>
              /\ dResult.component =
                    JObj({<<<<"t","y","p","e">>, JStr(<<"i","n","f","o","_","c","a","r","d">>)>>,
                          <<<<"t","i","t","l","e">>, JStr(<<"R","e","s","p","o","n","s","e">>)>>,
                          <<<<"c","o","n","t","e","n","t">>, JStr(dArgs.answer)>>,
                          <<<<"v","a","r","i","a","n","t">>, JStr(<<"d","e","f","a","u","l","t">>)>>})
              /\ dResult.reasoning = JStr(<<"A","g","e","n","t"," ","n","o","t"," ","i","n","i","t","i","a","l","i","z","e","d">>)
C34_Witness ==
    /\ ~dExecutor /\ dPc = "returned"
    /\ dArgs.answer # <<>>
    /\ Get(dResult.component, <<"c","o","n","t","e","n","t">>) = JStr(dArgs.answer)

\* create_tools_from_schemas and get_tool_names returned for a list of
\* schemas.
ToolNamesCalled == tPc = "returned" /\ tInput.tool = "get_tool_names"

\* C35: create_tools_from_schemas makes a tool of every schema whose tool
\* creation does not raise, in input order, and of no other; get_tool_names
\* returns for every list of schemas, and its names for the schemas whose
\* tool was created are the names of the created tools, in the same order.
C35_ToolNamesOfCreatedTools ==
    ToolNamesCalled =>
        LET schemas == tInput.schema.l
            created == {i \in 1..Len(schemas) : HasName(schemas[i])}
        IN  /\ [i \in 1..Len(tOutput.tools) |-> tOutput.tools[i].schema]
                  = SelectSeq(schemas, HasName)
            /\ ~tOutput.names.raised
            /\ Len(tOutput.names.names) = Len(schemas)
            /\ \A i \in created :
                  tOutput.names.names[i]
                      = tOutput.tools[Cardinality({j \in created : j <= i})].name
====
